---- MODULE Spec2Model ----
(***************************************************************************)
(* Execution engine of the AiTrade repository: the SQLite trade ledger     *)
(* (trade_ledger.py), the broker adapters' order submission                *)
(* (brokers/*.py), the execution router (execution_router.py) and the      *)
(* strategy runner (async_strategy_runner.py).                             *)
(*                                                                         *)
(* The specifications share the ledger operators:                          *)
(*   SpecLedger  any caller driving the TradeLedger order API              *)
(*   SpecBroker  place_order of the venue adapters under HTTP failures     *)
(*   Spec        the runner process: run_forever, run_strategy,            *)
(*               execute_trade, _check_protective_exits, kill switch,      *)
(*               crash and restart with startup reconciliation             *)
(*   SpecTrail   _update_dynamic_trailing over price paths, on records     *)
(*               read from disk and on records armed by the runner         *)
(*   SpecApi     Spec, and run_strategy called by the owner of the runner  *)
(*   SpecRouter  ExecutionRouter.execute_order and its daily risk gates    *)
(*   SpecExits   _check_protective_exits, one protection per step, with    *)
(*               two symbols                                               *)
(*   SpecRisk    _compute_risk_per_trade as run_strategy calls it          *)
(*   SpecSlots   the entries of one run_strategy cycle under               *)
(*               MAX_OPEN_POSITIONS, with two symbols                      *)
(*   SpecStore   state_store.py: atomic write, crash, read                 *)
(*   SpecWait    wait_for_order_final of the venue adapters                *)
(*   SpecWatchdog  the heartbeat watchdog (watchdog_heartbeat.py)          *)
(*   SpecStartup initialize() over the ledger, the protections file and    *)
(*               the positions a starting process finds, with two symbols  *)
(* Timestamps (utcnow) are written as the token "now": no claim reads them. *)
(***************************************************************************)
EXTENDS Integers, Sequences, FiniteSets, TLC

VARIABLES
    orders,       \* ledger table orders: client_id -> row (trade_ledger.py:51)
    last_call,    \* the last ledger call and what it returned / raised
    held,         \* client_ids whose last reserve_order returned True and
                  \* which no negative mark_order_final has released since
    inserted_by,  \* client_id -> the API call that inserted its row
    bk,           \* one place_order call of a venue adapter and the venue's side of it
    rt,           \* the ExecutionRouter's daily drawdown anchors, the accounts'
                  \* equity and the calendar day, and its last execute_order call
    rk,           \* one call of _compute_risk_per_trade: its arguments and result
    ss,           \* state_store: one file, its temp file, and the call writing it
    wo,           \* one call of an adapter's wait_for_order_final
    wd,           \* the heartbeat watchdog process (watchdog_heartbeat.py)
    trades,       \* ledger table trades: trade_id -> row (trade_ledger.py:65)
    runner,       \* the AsyncStrategyRunner object and the run_forever frame
    files,        \* state directory: protections, runner state, kill switch
    venue,        \* the venue: positions, working entry orders, plan orders
    signals,      \* the latest signal row of each symbol
    cfg,          \* Config values read by the runner
    hist          \* history: venue calls made, execute_trade calls, crashes,
                  \* the status changes of order rows, the last initialize()

ledger_vars == <<orders, last_call, held, inserted_by>>
runner_vars == <<trades, runner, files, venue, signals, cfg, hist>>

vars == <<orders, last_call, held, inserted_by, bk, rt, rk, ss, wo, wd,
          trades, runner, files, venue, signals, cfg, hist>>

(***************************************************************************)
(* Bounds of the model                                                     *)
(***************************************************************************)
MaxRetry == 1          \* largest payload._retry_n the ledger runs explore

(***************************************************************************)
(* TradeLedger: orders table (trade_ledger.py)                             *)
(***************************************************************************)
Symbols == {"BTCUSDT"}

\* _make_client_id: broker prefix, symbol, role and sha1(broker|symbol|role|signal_id);
\* the broker is a function of the symbol (router.asset_routing), so the id is
\* determined by, and determines, (symbol, role, signal_id).
make_client_id(symbol, role, signal_id) == <<symbol, role, signal_id>>

NullId == "NULL"
EmptyPayload == [k \in {} |-> 0]

\* reserve_order: statuses after which the same client_id may be reserved again
RetryStatuses_submitted == {"failed", "canceled", "cancelled", "rejected", "submitted"}
RetryStatuses == {"failed", "canceled", "cancelled", "rejected"}

\* the final statuses callers hand to mark_order_final (cancelled is
\* normalised to canceled at every call site of the runner)
FinalStatuses == {"filled", "canceled", "rejected", "failed"}
NegativeStatuses == {"failed", "canceled", "rejected"}

\* merged = {}; merged.update(prev); merged.update(new)
MergePayload(prev, new) == new @@ prev

PayloadGet(p, k, default) == IF k \in DOMAIN p THEN p[k] ELSE default

\* the bool reserve_order returns on table ord
reserve_order_ret_reserved_again(ord, c) ==
    IF c \in DOMAIN ord THEN ord[c].status \in RetryStatuses \cup {"reserved"} ELSE TRUE
reserve_order_ret(ord, c) ==
    IF c \in DOMAIN ord THEN ord[c].status \in RetryStatuses ELSE TRUE

\* the retry branch of reserve_order: the row after the UPDATE
retry_row_drop_history(row, payload) ==
    [row EXCEPT !.status = "reserved",
                !.order_id = NullId,
                !.payload = ("_retry_n" :> PayloadGet(row.payload, "_retry_n", 0) + 1)
                            @@ ("_retry_at" :> "now")
                            @@ ("_prev_status" :> row.status)
                            @@ payload]
retry_row(row, payload) ==
    [row EXCEPT !.status = "reserved",
                !.order_id = NullId,
                !.payload = ("_retry_n" :> PayloadGet(row.payload, "_retry_n", 0) + 1)
                            @@ ("_retry_at" :> "now")
                            @@ ("_prev_status" :> row.status)
                            @@ MergePayload(row.payload, payload)]

\* the orders table after reserve_order(c, role=, side=, payload=)
reserve_order_tbl(ord, c, role, side, payload) ==
    IF c \in DOMAIN ord
    THEN IF ord[c].status \in RetryStatuses
         THEN [ord EXCEPT ![c] = retry_row(ord[c], payload)]
         ELSE ord
    ELSE (c :> [role |-> role, side |-> side, status |-> "reserved",
                order_id |-> NullId, payload |-> payload]) @@ ord

\* mark_order_submitted / mark_order_final raise KeyError when the row is missing
mark_raises(ord, c) == c \notin DOMAIN ord

\* the orders table after mark_order_submitted(c, order_id, payload)
mark_order_submitted_upsert(ord, c, order_id, payload) ==
    IF c \notin DOMAIN ord
    THEN (c :> [role |-> "other", side |-> "buy", status |-> "submitted",
                order_id |-> order_id, payload |-> payload]) @@ ord
    ELSE [ord EXCEPT ![c] = [@ EXCEPT
            !.status = "submitted",
            !.order_id = order_id,
            !.payload = ("_updated_at" :> "now") @@ ("_event" :> "submitted")
                        @@ MergePayload(@, payload)]]
mark_order_submitted_tbl(ord, c, order_id, payload) ==
    IF mark_raises(ord, c)
    THEN ord
    ELSE [ord EXCEPT ![c] = [@ EXCEPT
            !.status = "submitted",
            !.order_id = order_id,
            !.payload = ("_updated_at" :> "now") @@ ("_event" :> "submitted")
                        @@ MergePayload(@, payload)]]

FinalEvent(status) ==
    CASE status = "filled"   -> "final:filled"
      [] status = "canceled" -> "final:canceled"
      [] status = "rejected" -> "final:rejected"
      [] status = "failed"   -> "final:failed"

\* the orders table after mark_order_final(c, status, payload)
mark_order_final_tbl(ord, c, status, payload) ==
    IF mark_raises(ord, c)
    THEN ord
    ELSE [ord EXCEPT ![c] = [@ EXCEPT
            !.status = status,
            !.payload = ("_updated_at" :> "now") @@ ("_event" :> FinalEvent(status))
                        @@ MergePayload(@, payload)]]

\* bookkeeping of the calls (not program state): which ids are held, who inserted
held_after_reserve(h, ord, c) == IF reserve_order_ret(ord, c) THEN h \cup {c} ELSE h
held_after_final(h, ord, c, status) ==
    IF ~mark_raises(ord, c) /\ status \in NegativeStatuses THEN h \ {c} ELSE h
inserted_after(ins, tbl, c, api) ==
    IF c \notin DOMAIN ins /\ c \in DOMAIN tbl THEN (c :> api) @@ ins ELSE ins

(***************************************************************************)
(* SpecLedger: any sequence of order calls on a TradeLedger                *)
(***************************************************************************)
LedgerIds == {make_client_id(s, r, 1) : s \in Symbols, r \in {"entry", "exit"}}
LedgerOrderIds == {"o1"}
LedgerPayloads == {[qty |-> 1], [qty |-> 2, error |-> "e"]}

NoCall == [op |-> "none", cid |-> <<>>, ret |-> "none", payload |-> EmptyPayload]

InitLedgerVars ==
    /\ orders = [c \in {} |-> 0]
    /\ last_call = NoCall
    /\ held = {}
    /\ inserted_by = [c \in {} |-> 0]

BrokerIdle ==
    [adapter |-> "none", has_cid |-> FALSE, pc |-> "idle", attempt |-> 0,
     venue_orders |-> 0, posts |-> 0, last_op |-> "none", result |-> "none"]

\* ExecutionRouter.__init__: no anchor taken; no execute_order call made yet
NoOrder ==
    [side |-> "none", outcome |-> "none", anchor |-> 0, current |-> 0,
     after_refusal |-> FALSE]

\* a file of the state directory: absent, or its bytes (the tokens of a JSON
\* text) and whether they have reached the disk
NoFile == [exists |-> FALSE, bytes |-> <<>>, synced |-> TRUE]

\* no call of state_store is running and nothing was read
StoreIdle ==
    [path |-> NoFile, tmp |-> NoFile, pc |-> "idle", obj |-> <<>>, data |-> <<>>,
     prev |-> NoFile, default |-> <<>>, read |-> <<>>, read_done |-> FALSE]

\* no call of wait_for_order_final is running
WaitIdle ==
    [adapter |-> "none", pc |-> "idle", timeout_s |-> 0, now |-> 0, last |-> "none",
     polled |-> FALSE, stopped_on |-> "none", status |-> "none"]

\* the watchdog process is not running and has no state file
WatchdogIdle ==
    [pc |-> "down", now |-> 0, hb_ts |-> 0, last_alert_ts |-> 0,
     last_was_stale |-> FALSE, state_file |-> [last_alert_ts |-> 0,
                                               last_was_stale |-> FALSE],
     alerts |-> {}, seen |-> "none"]

\* no call of _compute_risk_per_trade
RiskIdle ==
    [confidence |-> 0, threshold |-> 0, base_risk |-> 0, max_risk |-> 0,
     den |-> 1, risk |-> 0, done |-> FALSE]

RouterIdle ==
    [anchor_date |-> 0, anchor_equity |-> 0, anchor_by_broker |-> [b \in {} |-> 0],
     live |-> FALSE, max_dd |-> 0, today |-> 1,
     equity |-> [b \in {"bitget", "tinkoff"} |-> 0], refused_on |-> 0,
     last |-> NoOrder]

\* no execute_trade frame
NoFrame == [symbol |-> "", signal_id |-> 0, res |-> "none"]

\* no _check_protective_exits frame; inside one: the index of the protection
\* the for-loop is at, the symbols collected in to_remove, whether
\* list_all_positions raised, and dirty
NoExits == [i |-> 0, to_remove |-> {}, posfail |-> FALSE, dirty |-> FALSE]

\* the frame of run_strategy's for-loop over self.signals: the symbol it is
\* at, whether list_all_positions failed (positions = []), and open_symbols
NoRun == [i |-> 0, posfail |-> FALSE, open_symbols |-> {}]

\* AsyncStrategyRunner.__init__: _kill_switch_active = False, _protections = {};
\* _runner_state is read from its file. pc "down": no process is running.
RunnerDown ==
    [pc |-> "down", protections |-> [s \in {} |-> 0], last_seen |-> [s \in {} |-> 0],
     kill_switch_active |-> FALSE, consecutive_errors |-> 0, loop |-> FALSE,
     et |-> NoFrame, hb_due |-> TRUE, asleep |-> FALSE, x |-> NoExits,
     rs |-> NoRun]

\* an empty state directory
FilesEmpty ==
    [protections |-> [s \in {} |-> 0], last_seen |-> [s \in {} |-> 0],
     kill_switch |-> FALSE, heartbeat |-> "none"]

VenueEmpty ==
    [pos |-> [s \in Symbols |-> 0], working |-> {}, known |-> {}, plans |-> {},
     tick |-> 1]

HistEmpty == [calls |-> {}, blocked |-> FALSE, et_calls |-> {}, et_twice |-> {},
              interrupted |-> {}, crashes |-> 0, cycles |-> 0,
              sends |-> [c \in {} |-> 0], ks_log |-> <<>>, streak |-> 0,
              answered |-> FALSE, listed |-> TRUE, moves |-> {}, atr |-> 0,
              far |-> 0]

DefaultCfg ==
    [mode |-> "paper", use_native |-> TRUE, broker_native |-> FALSE, max_pos |-> 0,
     router_has_broker |-> TRUE]

InitRunnerIdle ==
    /\ trades = [t \in {} |-> 0]
    /\ runner = RunnerDown
    /\ files = FilesEmpty
    /\ venue = VenueEmpty
    /\ signals = [s \in {} |-> 0]
    /\ cfg = DefaultCfg
    /\ hist = HistEmpty

InitLedger ==
    /\ InitLedgerVars
    /\ bk = BrokerIdle /\ rk = RiskIdle /\ ss = StoreIdle /\ wo = WaitIdle /\ wd = WatchdogIdle
    /\ rt = RouterIdle /\ InitRunnerIdle

LReserveOrder(c, pl) ==
    /\ (c \in DOMAIN orders /\ orders[c].status \in RetryStatuses)
          => PayloadGet(orders[c].payload, "_retry_n", 0) < MaxRetry
    /\ orders' = reserve_order_tbl(orders, c, c[2], "buy", pl)
    /\ last_call' = [op |-> "reserve_order", cid |-> c, payload |-> pl,
                     ret |-> IF reserve_order_ret(orders, c) THEN "true" ELSE "false"]
    /\ held' = held_after_reserve(held, orders, c)
    /\ inserted_by' = inserted_after(inserted_by, orders', c, "reserve_order")
    /\ UNCHANGED <<bk, rk, ss, wo, wd, rt, runner_vars>>

LMarkOrderSubmitted(c, oid, pl) ==
    /\ orders' = mark_order_submitted_tbl(orders, c, oid, pl)
    /\ last_call' = [op |-> "mark_order_submitted", cid |-> c, payload |-> pl,
                     ret |-> IF mark_raises(orders, c) THEN "KeyError" ELSE "none"]
    /\ held' = held
    /\ inserted_by' = inserted_after(inserted_by, orders', c, "mark_order_submitted")
    /\ UNCHANGED <<bk, rk, ss, wo, wd, rt, runner_vars>>

LMarkOrderFinal(c, st, pl) ==
    /\ orders' = mark_order_final_tbl(orders, c, st, pl)
    /\ last_call' = [op |-> "mark_order_final", cid |-> c, payload |-> pl,
                     ret |-> IF mark_raises(orders, c) THEN "KeyError" ELSE "none"]
    /\ held' = held_after_final(held, orders, c, st)
    /\ inserted_by' = inserted_after(inserted_by, orders', c, "mark_order_final")
    /\ UNCHANGED <<bk, rk, ss, wo, wd, rt, runner_vars>>

NextLedger ==
    \/ \E c \in LedgerIds, pl \in LedgerPayloads : LReserveOrder(c, pl)
    \/ \E c \in LedgerIds, oid \in LedgerOrderIds, pl \in LedgerPayloads :
          LMarkOrderSubmitted(c, oid, pl)
    \/ \E c \in LedgerIds, st \in FinalStatuses, pl \in LedgerPayloads :
          LMarkOrderFinal(c, st, pl)

SpecLedger == InitLedger /\ [][NextLedger]_vars

RetryKeys == {"_retry_n", "_retry_at", "_prev_status"}

\* C1: once reserve_order(c) has returned True, every later reserve_order(c)
\* returns False and leaves the orders table unchanged, until mark_order_final
\* has put the row in status failed, canceled or rejected.
C1_ReserveRefusedWhileHeld ==
    [][\A c \in LedgerIds :
          (c \in held /\ last_call'.op = "reserve_order" /\ last_call'.cid = c)
              => (last_call'.ret = "false" /\ orders' = orders)]_vars

C1_Witness ==
    /\ last_call.op = "reserve_order"
    /\ last_call.ret = "false"
    /\ last_call.cid \in held
    /\ orders[last_call.cid].status \in {"submitted", "filled"}

\* C2: reserve_order on a row in status failed, canceled or rejected returns
\* True, sets status reserved, clears order_id, raises payload._retry_n by
\* exactly 1 and keeps every payload key of the row; keys of the new payload
\* take the new value, the other keys keep the old one.
C2_RetryReserveMerges ==
    [][\A c \in LedgerIds :
          (/\ c \in DOMAIN orders
           /\ orders[c].status \in NegativeStatuses
           /\ last_call'.op = "reserve_order"
           /\ last_call'.cid = c)
              => /\ last_call'.ret = "true"
                 /\ orders'[c].status = "reserved"
                 /\ orders'[c].order_id = NullId
                 /\ orders'[c].payload["_retry_n"]
                      = PayloadGet(orders[c].payload, "_retry_n", 0) + 1
                 /\ DOMAIN orders[c].payload \subseteq DOMAIN orders'[c].payload
                 /\ \A k \in DOMAIN last_call'.payload :
                        orders'[c].payload[k] = last_call'.payload[k]
                 /\ \A k \in DOMAIN orders[c].payload
                              \ (DOMAIN last_call'.payload \cup RetryKeys) :
                        orders'[c].payload[k] = orders[c].payload[k]]_vars

C2_Witness ==
    /\ last_call.op = "reserve_order"
    /\ last_call.ret = "true"
    /\ "error" \notin DOMAIN last_call.payload
    /\ LET p == orders[last_call.cid].payload
       IN  /\ PayloadGet(p, "_retry_n", 0) = 1
           /\ PayloadGet(p, "error", "") = "e"
           /\ PayloadGet(p, "_event", "") = "final:failed"
           /\ p["qty"] = 1

\* C3: every order row was inserted by reserve_order; mark_order_submitted and
\* mark_order_final on a client_id without a row raise and change nothing.
C3_RowsComeFromReserve ==
    /\ [](\A c \in DOMAIN orders : inserted_by[c] = "reserve_order")
    /\ [][(/\ last_call'.op \in {"mark_order_submitted", "mark_order_final"}
           /\ last_call'.cid \notin DOMAIN orders)
              => (last_call'.ret = "KeyError" /\ orders' = orders)]_vars

C3_Witness ==
    /\ last_call.op \in {"mark_order_submitted", "mark_order_final"}
    /\ last_call.ret = "KeyError"
    /\ \E c \in DOMAIN orders : orders[c].status \in {"submitted", "filled"}

(***************************************************************************)
(* SpecBroker: place_order of the venue adapters                           *)
(*   bitget  BitgetBroker.place_order, its own retry loop                  *)
(*   tinkoff TinkoffV2Broker.place_order over _post_with_backoff           *)
(* SimulatedBroker.place_order makes no HTTP call and has no retry.        *)
(* The caller gives a client_id (the router always passes the runner's).   *)
(* venue_has: the venue holds an order under that client_id; a POST whose  *)
(* answer is lost (gateway error, timeout) may or may not have created it. *)
(***************************************************************************)
BitgetMaxRetries == 4      \* http_max_retries default, range(max_retries + 1)
TinkoffMaxAttempts == 5    \* max_attempts, range(1, max_attempts + 1)

Adapters == {"bitget", "tinkoff"}

\* answers to the POST of an order
BitgetPostOutcomes ==
    {"ok", "api_retryable", "api_fatal", "http_retryable", "http_fatal", "network"}
TinkoffPostOutcomes == {"ok", "429", "5xx", "4xx", "network"}
\* answers after which the venue may hold the order although the caller saw an error
AmbiguousOutcomes == {"http_retryable", "network", "5xx"}

\* place_order is entered; has_cid: OrderRequest.client_id is set
BkPlaceOrder(a, cid) ==
    /\ bk.pc = "idle"
    /\ bk' = [BrokerIdle EXCEPT !.adapter = a, !.has_cid = cid, !.pc = "post",
                               !.attempt = IF a = "tinkoff" THEN 1 ELSE 0]
    /\ UNCHANGED <<ledger_vars, runner_vars, rt, rk, ss, wo, wd>>

\* does a failed Bitget POST go to the client_id lookup (and then retry)?
BitgetRetries(out, attempt) ==
    /\ out \in {"api_retryable", "http_retryable", "network"}
    /\ attempt < BitgetMaxRetries

\* the venue's order count after a POST that reached it: an id already known
\* to the venue (clientOid / orderId) creates nothing new
venue_after(b, reached) ==
    IF ~reached THEN b.venue_orders
    ELSE IF (b.has_cid \/ b.adapter = "tinkoff") /\ b.venue_orders >= 1 THEN b.venue_orders
    ELSE b.venue_orders + 1

\* one pass of the for-loop body of BitgetBroker.place_order up to the POST's answer
BitgetPost(out, reached) ==
    /\ bk.adapter = "bitget" /\ bk.pc = "post"
    /\ out = "ok" => (~bk.has_cid \/ bk.venue_orders = 0)   \* duplicate clientOid is refused
    /\ reached => (out \in AmbiguousOutcomes \cup {"ok"})
    /\ out = "ok" => reached
    /\ bk' = [bk EXCEPT
            !.posts = @ + 1,
            !.last_op = "post",
            !.venue_orders = venue_after(bk, reached),
            !.pc = IF out = "ok" THEN "done"
                   ELSE IF BitgetRetries(out, bk.attempt) THEN "lookup" ELSE "done",
            !.result = IF out = "ok" THEN "new"
                       ELSE IF BitgetRetries(out, bk.attempt) THEN "none" ELSE "raised"]
    /\ UNCHANGED <<ledger_vars, runner_vars, rt, rk, ss, wo, wd>>

\* _try_lookup_existing, then return the order found or sleep and continue;
\* without a client_oid it returns None at once, and so it does when
\* get_order_info raises
BitgetLookup(found) ==
    /\ bk.adapter = "bitget" /\ bk.pc = "lookup"
    /\ found => (bk.has_cid /\ bk.venue_orders >= 1)
    /\ bk' = [bk EXCEPT
            !.last_op = IF found THEN "lookup_found"
                        ELSE IF bk.has_cid THEN "lookup_none" ELSE "lookup_skipped",
            !.pc = IF found THEN "done" ELSE "post",
            !.attempt = IF found THEN @ ELSE @ + 1,
            !.result = IF found THEN "existing" ELSE "none"]
    /\ UNCHANGED <<ledger_vars, runner_vars, rt, rk, ss, wo, wd>>

\* does _post_with_backoff go round its loop again after this answer?
TinkoffRetries(out, attempt) ==
    /\ out \in {"429", "5xx", "4xx", "network"}
    /\ attempt < TinkoffMaxAttempts

\* one pass of the for-loop of _post_with_backoff on the PostOrder request
TinkoffPost(out, reached) ==
    /\ bk.adapter = "tinkoff" /\ bk.pc = "post"
    /\ reached => (out \in AmbiguousOutcomes \cup {"ok"})
    /\ out = "ok" => reached
    /\ bk' = [bk EXCEPT
            !.posts = @ + 1,
            !.last_op = "post",
            !.venue_orders = venue_after(bk, reached),
            !.attempt = IF TinkoffRetries(out, bk.attempt) THEN @ + 1 ELSE @,
            !.pc = IF TinkoffRetries(out, bk.attempt) THEN "post" ELSE "done",
            !.result = IF out = "ok" THEN "filled"
                       ELSE IF TinkoffRetries(out, bk.attempt) THEN "none" ELSE "raised"]
    /\ UNCHANGED <<ledger_vars, runner_vars, rt, rk, ss, wo, wd>>

\* place_order returns or raises to its caller
BkReturn ==
    /\ bk.pc = "done"
    /\ bk' = [BrokerIdle EXCEPT !.last_op = bk.result]
    /\ UNCHANGED <<ledger_vars, runner_vars, rt, rk, ss, wo, wd>>

InitBroker ==
    /\ InitLedgerVars
    /\ bk = BrokerIdle /\ rk = RiskIdle /\ ss = StoreIdle /\ wo = WaitIdle /\ wd = WatchdogIdle
    /\ rt = RouterIdle /\ InitRunnerIdle

NextBroker ==
    \/ \E a \in Adapters, cid \in BOOLEAN : BkPlaceOrder(a, cid)
    \/ \E out \in BitgetPostOutcomes, reached \in BOOLEAN : BitgetPost(out, reached)
    \/ \E found \in BOOLEAN : BitgetLookup(found)
    \/ \E out \in TinkoffPostOutcomes, reached \in BOOLEAN : TinkoffPost(out, reached)
    \/ BkReturn

SpecBroker == InitBroker /\ [][NextBroker]_vars

\* C6: in every adapter each re-submission of the order by place_order is
\* preceded by a lookup by client_id that found nothing, and a lookup that
\* finds the order ends place_order with that order's state.
C6_LookupBeforeResubmit ==
    [][/\ (bk'.posts = bk.posts + 1 /\ bk.posts >= 1) => bk.last_op = "lookup_none"
       /\ bk'.last_op = "lookup_found" => (bk'.pc = "done" /\ bk'.result = "existing")
      ]_vars

(***************************************************************************)
(* Spec: the runner process (async_strategy_runner.py)                     *)
(*                                                                         *)
(* One broker serves each symbol (router.asset_routing), so (broker,       *)
(* symbol) is written symbol.  Signal rows carry atr > 0, so SL and TP     *)
(* prices exist for every entry.  Every entry buys one unit; a sell closes *)
(* the whole position.                                                     *)
(***************************************************************************)
MaxSignals == 2        \* signal fingerprints published per symbol
MaxCrashes == 1        \* process crashes followed by a restart
MaxCycles == 2        \* run_strategy cycles explored over all process lives
MaxErrors == 2         \* Config.RUNNER_MAX_CONSECUTIVE_ERRORS of the runs

\* _make_trade_id: sha1(broker|symbol|signal_id)
make_trade_id(symbol, signal_id) == <<symbol, signal_id>>

\* ---- TradeLedger: trades table ----
\* upsert_trade inserts an open row unless the trade_id has one
upsert_trade(tr, trade_id, symbol, signal_id) ==
    IF trade_id \in DOMAIN tr THEN tr
    ELSE (trade_id :> [symbol |-> symbol, signal_id |-> signal_id, status |-> "open",
                       created |-> Cardinality(DOMAIN tr), entry |-> FALSE,
                       exit_reason |-> <<>>]) @@ tr

\* (variant: the entry price and quantity are not written)
set_trade_entry_skipped(tr, trade_id) == tr
\* set_trade_entry: entry_price and entry_qty of the row are written
set_trade_entry(tr, trade_id) ==
    IF trade_id \in DOMAIN tr THEN [tr EXCEPT ![trade_id].entry = TRUE] ELSE tr

\* close_trade(trade_id, exit_price, reason): the row is written whatever its
\* status was; a reason is a tuple of its parts, <<>> for NULL
close_trade(tr, trade_id, reason) ==
    IF trade_id \in DOMAIN tr
    THEN [tr EXCEPT ![trade_id].status = "closed", ![trade_id].exit_reason = reason]
    ELSE tr

\* abort_trade(trade_id, reason); a reason f"{kind}:{status}" is <<kind, status>>
abort_trade(tr, trade_id, reason) ==
    IF trade_id \in DOMAIN tr
    THEN [tr EXCEPT ![trade_id].status = "aborted", ![trade_id].exit_reason = reason]
    ELSE tr

list_open_trades(tr) == {t \in DOMAIN tr : tr[t].status = "open"}

open_trades_of(tr, symbol) == {t \in list_open_trades(tr) : tr[t].symbol = symbol}

has_open_trade(tr, symbol) == open_trades_of(tr, symbol) # {}

\* get_open_trade: ORDER BY created_at DESC LIMIT 1
get_open_trade(tr, symbol) ==
    CHOOSE t \in open_trades_of(tr, symbol) :
        \A u \in open_trades_of(tr, symbol) : tr[u].created <= tr[t].created

\* ---- the state a handler of the runner reads and writes ----
World ==
    [orders |-> orders, trades |-> trades, protections |-> runner.protections,
     protections_file |-> files.protections, venue |-> venue, calls |-> hist.calls,
     blocked |-> hist.blocked, sends |-> hist.sends, ks_log |-> hist.ks_log,
     lock |-> FALSE, moves |-> hist.moves]

Without(f, k) == [x \in DOMAIN f \ {k} |-> f[x]]

\* _persist_protections: atomic_write_json of the whole map
persist_protections(w) == [w EXCEPT !.protections_file = w.protections]

\* self._protections.pop(symbol, None); self._persist_protections()
drop_protection(w, s) == persist_protections([w EXCEPT !.protections = Without(@, s)])

set_protection(w, s, rec) ==
    persist_protections([w EXCEPT !.protections = (s :> rec) @@ @])

\* a venue call of the runner: what was sent, under which client_id, whether
\* reserve_order had returned True for it, whether a mark_order_* followed
VenueCall(kind, c, reserved) ==
    [kind |-> kind, cid |-> c, reserved |-> reserved, marked |-> FALSE]

\* how many venue calls were made under each client_id
sent(sends, ids) ==
    [c \in DOMAIN sends \cup ids |->
        (IF c \in DOMAIN sends THEN sends[c] ELSE 0) + (IF c \in ids THEN 1 ELSE 0)]

w_call(w, kind, c, reserved) ==
    [w EXCEPT !.calls = @ \cup {VenueCall(kind, c, reserved)},
              !.sends = sent(@, {c})]

\* (a mark_order_* that raises KeyError marks nothing)
marked_calls(ord, calls, c) ==
    {IF r.cid = c /\ ~mark_raises(ord, c) THEN [r EXCEPT !.marked = TRUE] ELSE r :
        r \in calls}

\* history: the changes of status the ledger calls of the runner made to the
\* rows of the orders table, as <<status before, status after>> ("none": the
\* row did not exist)
status_of(ord, c) == IF c \in DOMAIN ord THEN ord[c].status ELSE "none"

status_moves(w, ord, c) ==
    IF status_of(w.orders, c) = status_of(ord, c) THEN w.moves
    ELSE w.moves \cup {<<status_of(w.orders, c), status_of(ord, c)>>}

w_reserve(w, c, role, side) ==
    LET ord == reserve_order_tbl(w.orders, c, role, side, EmptyPayload)
    IN  [w EXCEPT !.orders = ord, !.moves = status_moves(w, ord, c)]

w_submitted(w, c) ==
    LET ord == mark_order_submitted_tbl(w.orders, c, "oid", EmptyPayload)
    IN  [w EXCEPT !.orders = ord, !.moves = status_moves(w, ord, c),
                  !.calls = marked_calls(w.orders, @, c)]

w_final(w, c, status) ==
    LET ord == mark_order_final_tbl(w.orders, c, status, EmptyPayload)
    IN  [w EXCEPT !.orders = ord, !.moves = status_moves(w, ord, c),
                  !.calls = marked_calls(w.orders, @, c)]

\* ---- _router_execute_order ----
\* raises before the router is called when the kill switch is active
kill_switch_blocks_never(kill_switch_active) == FALSE
kill_switch_blocks(kill_switch_active) == kill_switch_active

\* what the venue answers to a market sell of the whole position; "raise":
\* router.execute_order raised (place_order failed)
SellOutcomes == {"filled", "pending", "rejected", "raise"}

venue_sell(v, s, out) == IF out = "filled" THEN [v EXCEPT !.pos[s] = 0] ELSE v

\* _router_execute_order(side="sell") under client_id c
w_exec_sell(w, ks, s, kind, c, out) ==
    IF kill_switch_blocks(ks) THEN [w EXCEPT !.blocked = TRUE]
    ELSE [w_call(w, kind, c, TRUE) EXCEPT !.venue = venue_sell(w.venue, s, out)]

exec_raised(ks, out) == kill_switch_blocks(ks) \/ out = "raise"

\* ---- _panic_close_unprotected ----
panic_close_unprotected(w, ks, s, trade_id, sid, posfail, out) ==
    IF posfail \/ w.venue.pos[s] = 0 THEN drop_protection(w, s)
    ELSE LET c == make_client_id(s, "pxit", sid) IN
         IF ~reserve_order_ret(w.orders, c) THEN w
         ELSE LET w1 == w_exec_sell(w_reserve(w, c, "panic_exit", "sell"), ks, s,
                                    "panic_exit", c, out)
              IN  IF exec_raised(ks, out) THEN w_final(w1, c, "failed")
                  ELSE LET w2 == w_submitted(w1, c)
                           w3 == IF out \in {"filled", "rejected"}
                                 THEN w_final(w2, c, out) ELSE w2
                           w4 == IF out = "filled"
                                 THEN [w3 EXCEPT !.trades = close_trade(
                                                       @, trade_id,
                                                       <<"native_protections_failed">>)]
                                 ELSE w3
                       IN  IF s \in DOMAIN w4.protections
                           THEN drop_protection(w4, s) ELSE w4

\* ---- protections ----
\* a record of self._protections; old: created_at lies further back than the
\* limit its mode compares it with (PENDING_ENTRY_MAX_AGE_S, max_hold bars)
ProtRec(mode, trade_id, sid) ==
    [mode |-> mode, trade_id |-> trade_id, signal_id |-> sid, old |-> FALSE]

\* _strict_protections_enabled with STRICT_PROTECTIONS_LIVE at its default
strict_protections_enabled(c) == c.mode = "live"

\* use_native and hasattr(broker, "place_protection_orders")
tries_native(c) == c.use_native /\ c.broker_native

\* native SL/TP: both ids reserved (the result is not read), then
\* place_protection_orders, then mark_order_submitted or mark_order_final(failed)
place_native(w, s, sid, place) ==
    LET slc == make_client_id(s, "sl", sid)
        tpc == make_client_id(s, "tp", sid)
        w1 == w_reserve(w_reserve(w, slc, "sl", "sell"), tpc, "tp", "sell")
        w2 == w_call(w_call(w1, "native_sl", slc, reserve_order_ret(w.orders, slc)),
                     "native_tp", tpc, reserve_order_ret(w.orders, tpc))
    IN  IF place = "ok"
        THEN [w_submitted(w_submitted(w2, slc), tpc) EXCEPT !.venue.plans = @ \cup {s}]
        ELSE w_final(w_final(w2, slc, "failed"), tpc, "failed")

\* execute_trade after a filled entry: native protections, synthetic fallback,
\* and in LIVE strict a panic close when the native ones are missing
arm_after_entry(w, ks, c, s, trade_id, sid, env) ==
    LET native_ok == tries_native(c) /\ env.place = "ok"
        w1 == IF tries_native(c) THEN place_native(w, s, sid, env.place) ELSE w
        w2 == IF native_ok
              THEN set_protection(w1, s, ProtRec("native", trade_id, sid))
              ELSE set_protection(w1, s, ProtRec("synthetic", trade_id, sid))
    IN  IF strict_protections_enabled(c) /\ c.broker_native /\ ~native_ok
        THEN panic_close_unprotected(w2, ks, s, trade_id, sid, env.posfail, env.sell)
        ELSE w2

\* _check_protective_exits, pending_entry whose position has appeared
arm_pending(w, ks, c, s, p, env) ==
    LET native_ok == tries_native(c) /\ env.place = "ok"
        w1 == IF tries_native(c) THEN place_native(w, s, p.signal_id, env.place) ELSE w
    IN  IF native_ok
        THEN [w1 EXCEPT !.protections[s] = ProtRec("native", p.trade_id, p.signal_id)]
        ELSE IF tries_native(c) /\ strict_protections_enabled(c)
        THEN LET w2 == panic_close_unprotected(w1, ks, s, p.trade_id, p.signal_id,
                                               env.posfail, env.sell)
             IN  [w2 EXCEPT !.protections = Without(@, s)]
        ELSE [w1 EXCEPT !.protections[s] = ProtRec("synthetic", p.trade_id, p.signal_id)]

\* pending_entry: wait, give up after the TTL, or take the position as the fill
exits_pending(w, ks, c, s, p, qty_pos, env) ==
    LET ec == make_client_id(s, "entry", p.signal_id) IN
    IF qty_pos <= 0
    THEN IF p.old
         THEN LET fin == IF ec \in w.venue.working THEN "unknown" ELSE env.final
                  w1 == IF fin = "canceled" THEN w_final(w, ec, "canceled") ELSE w
              IN  [w1 EXCEPT !.trades = abort_trade(@, p.trade_id,
                                                    <<"pending_entry_timeout", fin>>),
                             !.protections = Without(@, s)]
         ELSE w
    ELSE arm_pending(w_final([w EXCEPT !.trades = set_trade_entry(@, p.trade_id)],
                             ec, "filled"),
                     ks, c, s, p, env)

\* native: the position is gone, or a plan order has fired (the reason is
\* f"native_{fired}"; which leg fired is not told apart and written sl)
exits_native(w, s, p, qty_pos, env) ==
    IF qty_pos <= 0
    THEN [w EXCEPT !.trades = close_trade(@, p.trade_id, <<"native_exit_reconcile">>),
                   !.protections = Without(@, s)]
    ELSE IF env.fired /\ s \in w.venue.plans
    THEN [w EXCEPT !.trades = close_trade(@, p.trade_id, <<"native", "sl">>),
                   !.protections = Without(@, s),
                   !.venue.plans = @ \ {s}]
    ELSE w

\* (variant: the trade is closed and the record dropped once the exit order
\* was accepted, whatever its status)
sl_tp_exit_any_status(w, ks, s, p, env) ==
    IF env.hit = "none" THEN w
    ELSE LET xc == make_client_id(s, env.hit, p.signal_id) IN
         IF ~reserve_order_ret(w.orders, xc) THEN w
         ELSE LET w1 == w_exec_sell(w_reserve(w, xc, env.hit, "sell"), ks, s,
                                    "sl_tp_exit", xc, env.sell)
              IN  IF exec_raised(ks, env.sell) THEN w_final(w1, xc, "failed")
                  ELSE LET w2 == w_submitted(w1, xc)
                           w3 == IF env.sell \in {"filled", "rejected"}
                                 THEN w_final(w2, xc, env.sell) ELSE w2
                       IN  [w3 EXCEPT !.trades = close_trade(@, p.trade_id, <<env.hit>>),
                                      !.protections = Without(@, s)]
\* (variant: mark_order_submitted is called after the final status was written)
sl_tp_exit_final_first(w, ks, s, p, env) ==
    IF env.hit = "none" THEN w
    ELSE LET xc == make_client_id(s, env.hit, p.signal_id) IN
         IF ~reserve_order_ret(w.orders, xc) THEN w
         ELSE LET w1 == w_exec_sell(w_reserve(w, xc, env.hit, "sell"), ks, s,
                                    "sl_tp_exit", xc, env.sell)
              IN  IF exec_raised(ks, env.sell) THEN w_final(w1, xc, "failed")
                  ELSE LET w2 == IF env.sell \in {"filled", "rejected"}
                                 THEN w_final(w1, xc, env.sell) ELSE w1
                           w3 == w_submitted(w2, xc)
                       IN  IF env.sell = "filled"
                           THEN [w3 EXCEPT !.trades = close_trade(@, p.trade_id, <<env.hit>>),
                                           !.protections = Without(@, s)]
                           ELSE w3
\* synthetic SL / TP hit: reserve, market sell, mark
sl_tp_exit(w, ks, s, p, env) ==
    IF env.hit = "none" THEN w
    ELSE LET xc == make_client_id(s, env.hit, p.signal_id) IN
         IF ~reserve_order_ret(w.orders, xc) THEN w
         ELSE LET w1 == w_exec_sell(w_reserve(w, xc, env.hit, "sell"), ks, s,
                                    "sl_tp_exit", xc, env.sell)
              IN  IF exec_raised(ks, env.sell) THEN w_final(w1, xc, "failed")
                  ELSE LET w2 == w_submitted(w1, xc)
                           w3 == IF env.sell \in {"filled", "rejected"}
                                 THEN w_final(w2, xc, env.sell) ELSE w2
                       IN  IF env.sell = "filled"
                           THEN [w3 EXCEPT !.trades = close_trade(@, p.trade_id, <<env.hit>>),
                                           !.protections = Without(@, s)]
                           ELSE w3

\* synthetic: position gone, time exit, SL / TP
exits_synthetic(w, ks, s, p, qty_pos, env) ==
    IF qty_pos <= 0 THEN [w EXCEPT !.protections = Without(@, s)]
    ELSE LET tc == make_client_id(s, "exit_time", p.signal_id)
             time_try == p.old /\ reserve_order_ret(w.orders, tc)
             wt == w_exec_sell(w_reserve(w, tc, "time_exit", "sell"), ks, s,
                               "time_exit", tc, env.sell)
         IN  IF time_try /\ ~exec_raised(ks, env.sell)
             THEN [wt EXCEPT !.trades = close_trade(@, p.trade_id, <<"time_exit">>),
                             !.protections = Without(@, s)]
             ELSE sl_tp_exit(IF time_try THEN wt ELSE w, ks, s, p, env)

\* the body of the for-loop of _check_protective_exits for one symbol;
\* _update_dynamic_trailing returns False for every record the runner arms,
\* which carries no "atr" key (lines 563-568)
exits_symbol(w, ks, c, s, env) ==
    IF s \notin DOMAIN w.protections \/ ~env.price_ok THEN w
    ELSE LET p == w.protections[s]
             qty_pos == IF env.posfail THEN 0 ELSE w.venue.pos[s]
         IN  CASE p.mode = "pending_entry" -> exits_pending(w, ks, c, s, p, qty_pos, env)
               [] p.mode = "native" -> exits_native(w, s, p, qty_pos, env)
               [] OTHER -> exits_synthetic(w, ks, s, p, qty_pos, env)

\* the order of the records in self._protections (a symbol without a record
\* is passed over)
SymbolSeq == <<"BTCUSDT", "ETHUSDT">>

RECURSIVE exits_loop(_, _, _, _, _)
exits_loop(w, ks, c, i, env) ==
    IF i > Len(SymbolSeq) THEN w
    ELSE exits_loop(exits_symbol(w, ks, c, SymbolSeq[i], env), ks, c, i + 1, env)

check_protective_exits(w, ks, c, env) ==
    IF DOMAIN w.protections = {} THEN w
    ELSE LET w1 == exits_loop(w, ks, c, 1, env)
         IN  IF env.price_ok \/ w1.protections # w.protections
             THEN persist_protections(w1) ELSE w1

\* what the venue answers to the cancels of the kill-switch handling: all pass,
\* cancel_plan_order raises, or get_open_orders / cancel_order raises
CancelOutcomes == {"ok", "plan_fails", "orders_fail"}

\* what the environment answers during one handler
Envs ==
    [place : {"ok", "fail"}, posfail : BOOLEAN, sell : SellOutcomes,
     hit : {"none", "sl", "tp"}, fired : BOOLEAN, price_ok : BOOLEAN,
     final : {"canceled", "unknown"}, cancel : CancelOutcomes]

\* the answers nobody asks for in a handler are left at these values
EnvDefault ==
    [place |-> "ok", posfail |-> FALSE, sell |-> "filled", hit |-> "none",
     fired |-> FALSE, price_ok |-> TRUE, final |-> "unknown", cancel |-> "ok"]

\* the answers of Envs that differ from EnvDefault only in the fields asked
EnvsAsking(fields) ==
    LET Ask(k, S) == IF k \in fields THEN S ELSE {EnvDefault[k]} IN
    [place : Ask("place", {"ok", "fail"}), posfail : Ask("posfail", BOOLEAN),
     sell : Ask("sell", SellOutcomes), hit : Ask("hit", {"none", "sl", "tp"}),
     fired : Ask("fired", BOOLEAN), price_ok : Ask("price_ok", BOOLEAN),
     final : Ask("final", {"canceled", "unknown"}),
     cancel : Ask("cancel", CancelOutcomes)]

\* the answers _check_protective_exits asks for, by the modes it finds
ExitFields(prots) ==
    LET modes == {prots[s].mode : s \in DOMAIN prots} IN
    (IF modes # {} THEN {"posfail", "price_ok"} ELSE {})
    \cup (IF "pending_entry" \in modes THEN {"final", "place", "sell"} ELSE {})
    \cup (IF "native" \in modes THEN {"fired"} ELSE {})
    \cup (IF "synthetic" \in modes THEN {"hit", "sell"} ELSE {})

\* the answers the error path of run_forever asks for: those of
\* _handle_kill_switch, when this error reaches the limit
ErrorFields ==
    IF runner.loop /\ runner.consecutive_errors + 1 >= MaxErrors
    THEN {"posfail", "sell", "cancel"} ELSE {}

\* the answers execute_trade asks for after the entry order, by its result
MarkFields(res) ==
    CASE res = "filled" -> {"place", "posfail", "sell"}
      [] res = "pending" -> {"price_ok", "posfail", "place", "sell"}
      [] OTHER -> {}

\* ---- _handle_kill_switch ----
\* the native plan orders are cancelled, router.close_all_positions cancels the
\* open orders of the symbols in position and sends a market sell per position
\* through broker.close_position (no ledger row), and the protections are cleared
KillCloseId(s) == <<s, "kill", 0>>

\* the steps of one kill-switch handling, in the order they are made, each
\* with whether the trading lock was held
KsSteps(w, op, syms) ==
    LET q == SelectSeq(SymbolSeq, LAMBDA s : s \in syms) IN
    [i \in 1..Len(q) |-> [op |-> op, sym |-> q[i], locked |-> w.lock]]

\* cancel_all_orders(symbols=None): the symbols are those of the positions
cancel_all_orders(w, env) ==
    LET held_syms == IF env.posfail THEN {}
                     ELSE {s \in Symbols : w.venue.pos[s] > 0}
        w1 == [w EXCEPT !.ks_log = Append(@, [op |-> "cancel_all_orders", sym |-> "",
                                             locked |-> w.lock])]
    IN  IF env.cancel = "orders_fail" THEN w1
        ELSE [w1 EXCEPT !.venue.working = {c \in @ : c[1] \notin held_syms}]

close_all_positions(w, env) ==
    LET w1 == cancel_all_orders(w, env) IN
    IF env.posfail THEN w1
    ELSE LET held_syms == {s \in Symbols : w1.venue.pos[s] > 0}
             sold == IF env.sell = "filled" THEN held_syms ELSE {}
         IN  [w1 EXCEPT
                !.venue.pos = [s \in Symbols |-> IF s \in sold THEN 0 ELSE @[s]],
                !.calls = @ \cup {VenueCall("kill_close", KillCloseId(s), FALSE) :
                                  s \in held_syms},
                !.sends = sent(@, {KillCloseId(s) : s \in held_syms}),
                !.ks_log = @ \o KsSteps(w1, "close_position", held_syms)]

\* _cancel_native_protections for every native record
cancel_native_protections(w, env) ==
    LET natives == {s \in DOMAIN w.protections : w.protections[s].mode = "native"} IN
    [w EXCEPT !.venue.plans = IF env.cancel = "plan_fails" THEN @ ELSE @ \ natives,
              !.ks_log = @ \o KsSteps(w, "cancel_plan_order", natives)]

\* (variant: the protections are cleared only when every step passed)
handle_kill_switch_clear_on_success(w, env) ==
    LET w0 == [w EXCEPT !.lock = TRUE, !.ks_log = <<>>]
        w1 == cancel_native_protections(w0, env)
        w2 == [close_all_positions(w1, env) EXCEPT !.lock = FALSE]
    IN  IF env.cancel = "ok" /\ env.sell = "filled"
        THEN persist_protections([w2 EXCEPT !.protections = [s \in {} |-> 0]])
        ELSE w2
\* async with self._trading_lock: try (A), (B) finally clear and persist
handle_kill_switch(w, env) ==
    LET w0 == [w EXCEPT !.lock = TRUE, !.ks_log = <<>>]
        w1 == cancel_native_protections(w0, env)
        w2 == close_all_positions(w1, env)
    IN  persist_protections([w2 EXCEPT !.protections = [s \in {} |-> 0],
                                       !.lock = FALSE])

\* ---- initialize: reconcile_state, _reconcile_protections, _reconcile_on_startup ----
\* _reconcile_protections over the positions router.broker reports (active)
reconcile_protections(w, active) ==
    LET orphaned == DOMAIN w.protections \ active
        closed == {w.protections[s].trade_id : s \in orphaned}
        w1 == [w EXCEPT
                !.protections = [s \in DOMAIN @ \ orphaned |-> @[s]],
                !.trades = [t \in DOMAIN @ |->
                              IF t \in closed
                              THEN [@[t] EXCEPT !.status = "closed",
                                       !.exit_reason = <<"reconcile_protection_orphaned">>]
                              ELSE @[t]]]
    IN  IF orphaned # {} THEN persist_protections(w1) ELSE w1

\* trade_id of an orphan trade: reconcile-<broker>-<symbol>-<utc second>
OrphanTradeId(s, n) == <<s, "reconcile", n>>

\* (variant: an orphan trade is written for every listed position, with or
\* without an open ledger trade)
reconcile_on_startup_every_position(w, live, n) ==
    LET missing == {t \in list_open_trades(w.trades) : w.trades[t].symbol \notin live}
        gone == {w.trades[t].symbol : t \in missing}
        tr1 == [t \in DOMAIN w.trades |->
                  IF t \in missing
                  THEN [w.trades[t] EXCEPT !.status = "closed",
                           !.exit_reason = <<"reconcile_missing_position">>]
                  ELSE w.trades[t]]
        tr2 == [t \in {OrphanTradeId(s, n) : s \in live} |->
                  [symbol |-> t[1], signal_id |-> 0, status |-> "open",
                   created |-> Cardinality(DOMAIN tr1), entry |-> TRUE,
                   exit_reason |-> <<>>]] @@ tr1
    IN  persist_protections(
          [w EXCEPT !.trades = tr2,
                    !.protections = [s \in DOMAIN @ \ (gone \cup live) |-> @[s]]])
\* _reconcile_on_startup over the positions router.list_all_positions reports
reconcile_on_startup(w, live, n) ==
    LET missing == {t \in list_open_trades(w.trades) : w.trades[t].symbol \notin live}
        gone == {w.trades[t].symbol : t \in missing}
        tr1 == [t \in DOMAIN w.trades |->
                  IF t \in missing
                  THEN [w.trades[t] EXCEPT !.status = "closed",
                           !.exit_reason = <<"reconcile_missing_position">>]
                  ELSE w.trades[t]]
        orphans == {s \in live : ~has_open_trade(tr1, s)}
        tr2 == [t \in {OrphanTradeId(s, n) : s \in orphans} |->
                  [symbol |-> t[1], signal_id |-> 0, status |-> "open",
                   created |-> Cardinality(DOMAIN tr1), entry |-> TRUE,
                   exit_reason |-> <<>>]] @@ tr1
    IN  persist_protections(
          [w EXCEPT !.trades = tr2,
                    !.protections = [s \in DOMAIN @ \ (gone \cup live) |-> @[s]]])

\* ---- execute_trade(side="sell") after the price is known ----
execute_trade_sell(w, ks, s, sid, env) ==
    IF env.posfail \/ w.venue.pos[s] = 0 THEN w
    ELSE LET has == has_open_trade(w.trades, s)
             trade_id == IF has THEN get_open_trade(w.trades, s) ELSE make_trade_id(s, sid)
             xc == make_client_id(s, "exit", IF has THEN w.trades[trade_id].signal_id ELSE sid)
         IN  IF ~reserve_order_ret(w.orders, xc) THEN w
             ELSE LET w1 == w_exec_sell(w_reserve(w, xc, "exit", "sell"), ks, s,
                                        "signal_exit", xc, env.sell)
                  IN  IF exec_raised(ks, env.sell) THEN w_final(w1, xc, "failed")
                      ELSE LET w2 == w_submitted(w1, xc) IN
                           IF env.sell = "pending" THEN w2
                           ELSE IF env.sell # "filled" THEN w_final(w2, xc, env.sell)
                           ELSE LET w3 == [w_final(w2, xc, "filled") EXCEPT
                                             !.trades = close_trade(@, trade_id, <<"signal_exit">>)]
                                IN  IF s \in DOMAIN w3.protections
                                    THEN drop_protection(
                                           [w3 EXCEPT !.venue.plans =
                                              IF w3.protections[s].mode = "native"
                                              THEN @ \ {s} ELSE @], s)
                                    ELSE w3

\* ---- the process ----
Dirs == {"long", "short"}     \* p_long > conf, p_short > conf of the latest row

\* EXECUTION_MODE, USE_NATIVE_PROTECTIONS, whether the symbol's broker has
\* place_protection_orders (Bitget has, Tinkoff and the simulator have not),
\* MAX_OPEN_POSITIONS, and whether the router object has the attribute
\* broker that reconcile_state reads (ExecutionRouter has not)
Cfgs ==
    {[mode |-> "live", use_native |-> TRUE, broker_native |-> TRUE, max_pos |-> 0,
      router_has_broker |-> TRUE],
     [mode |-> "live", use_native |-> FALSE, broker_native |-> TRUE, max_pos |-> 0,
      router_has_broker |-> TRUE],
     [mode |-> "paper", use_native |-> TRUE, broker_native |-> TRUE, max_pos |-> 0,
      router_has_broker |-> TRUE],
     [mode |-> "paper", use_native |-> TRUE, broker_native |-> FALSE, max_pos |-> 0,
      router_has_broker |-> TRUE],
     [mode |-> "live", use_native |-> TRUE, broker_native |-> TRUE, max_pos |-> 0,
      router_has_broker |-> FALSE]}

Init ==
    /\ InitLedgerVars
    /\ bk = BrokerIdle /\ rk = RiskIdle /\ ss = StoreIdle /\ wo = WaitIdle /\ wd = WatchdogIdle
    /\ rt = RouterIdle
    /\ trades = [t \in {} |-> 0]
    /\ runner = RunnerDown
    /\ files = FilesEmpty
    /\ venue = VenueEmpty
    /\ signals = [s \in Symbols |-> [sid |-> 1, dir |-> "long"]]
    /\ cfg \in Cfgs
    /\ hist = HistEmpty

\* the handler's world w becomes the state, with runner r, files f, history h
\* (a handler that would push a row's _retry_n past MaxRetry, or the venue
\* calls under one client_id past those of MaxRetry retries, is not explored)
Commit(w, r, f, h) ==
    /\ \A c \in DOMAIN w.orders : PayloadGet(w.orders[c].payload, "_retry_n", 0) <= MaxRetry
    /\ \A c \in DOMAIN w.sends : w.sends[c] <= 2 * (MaxRetry + 1)
    /\ orders' = w.orders
    /\ trades' = w.trades
    /\ venue' = w.venue
    /\ runner' = [r EXCEPT !.protections = w.protections]
    /\ files' = [f EXCEPT !.protections = w.protections_file]
    /\ hist' = [h EXCEPT !.calls = w.calls, !.blocked = w.blocked, !.sends = w.sends,
                         !.ks_log = w.ks_log, !.moves = w.moves]
    /\ UNCHANGED <<last_call, held, inserted_by, bk, rk, ss, wo, wd, rt, signals, cfg>>

\* _touch_heartbeat: the file is written only when heartbeat_every_s has passed
\* since the last write (hb.due); a write restarts the interval, and touches
\* that follow each other with no await in between see the same instant
touch_heartbeat(hb, status) ==
    IF hb.due THEN [file |-> [hb.file EXCEPT !.heartbeat = status], due |-> FALSE]
    ELSE [hb EXCEPT !.due = FALSE]

RECURSIVE touch_all(_, _)
touch_all(hb, statuses) ==
    IF statuses = <<>> THEN hb
    ELSE touch_all(touch_heartbeat(hb, Head(statuses)), Tail(statuses))

\* the heartbeat touches of run_forever; run_strategy called directly makes none
Heartbeats(r, f, statuses) ==
    IF r.loop THEN touch_all([file |-> f, due |-> r.hb_due], statuses)
    ELSE [file |-> f, due |-> r.hb_due]

\* (variant: a successful cycle leaves the error counter as it is)
cycle_ok_keep_errors(r) ==
    [r EXCEPT !.et = NoFrame, !.pc = IF r.loop THEN "loop_top" ELSE "stopped",
              !.asleep = r.loop]
\* run_strategy returned: _persist_state, consecutive_errors = 0, sleep
cycle_ok(r) ==
    [r EXCEPT !.consecutive_errors = 0, !.et = NoFrame,
              !.pc = IF r.loop THEN "loop_top" ELSE "stopped",
              !.asleep = r.loop]

\* last_seen[symbol] = signal_id
seen(r, s, sid) == [r EXCEPT !.last_seen = (s :> sid) @@ @]

persist_state(f, r) == [f EXCEPT !.last_seen = r.last_seen]

\* execute_trade is entered for (symbol, fingerprint)
note_execute_trade(h, s, sid) ==
    [h EXCEPT !.et_twice = IF <<s, sid>> \in h.et_calls THEN @ \cup {<<s, sid>>} ELSE @,
              !.et_calls = @ \cup {<<s, sid>>}]

\* history: the cycles of run_forever that failed since its last successful one
failed_cycle(h) == [h EXCEPT !.streak = @ + 1]

\* run_strategy raised inside run_forever: count the error, and at the limit
\* write the kill-switch file and run _handle_kill_switch; a direct caller of
\* run_strategy gets the exception
CycleError(w, h, env) ==
    LET n == runner.consecutive_errors + 1 IN
    IF ~runner.loop
    THEN Commit(w, [runner EXCEPT !.pc = "stopped", !.et = NoFrame], files, h)
    ELSE IF n >= MaxErrors
    THEN LET hb == Heartbeats(runner, [files EXCEPT !.kill_switch = TRUE],
                              <<"error", "stopped">>)
         IN  Commit(handle_kill_switch(w, env),
                    [runner EXCEPT !.kill_switch_active = TRUE, !.pc = "stopped",
                                   !.consecutive_errors = n, !.et = NoFrame,
                                   !.hb_due = hb.due],
                    hb.file, failed_cycle(h))
    ELSE LET hb == Heartbeats(runner, files, <<"error", "alive">>)
         IN  Commit(w, [runner EXCEPT !.pc = "loop_top", !.consecutive_errors = n,
                                      !.et = NoFrame, !.hb_due = hb.due,
                                      !.asleep = TRUE],
                    hb.file, failed_cycle(h))

CycleOk(w, r, h) ==
    LET hb == Heartbeats(r, persist_state(files, r), <<"ok", "alive">>)
    IN  Commit(w, [cycle_ok(r) EXCEPT !.hb_due = hb.due], hb.file,
               IF r.loop THEN [h EXCEPT !.streak = 0] ELSE h)

\* a process starts: __init__ and initialize(). answered: the broker answers
\* the list_open_positions of reconcile_state (which re-raises a failure);
\* posfail: the list_all_positions of _reconcile_on_startup comes back empty
\* because a broker failed. (history: answered, and listed, whether that
\* listing held every open position)
Start(answered, posfail) ==
    /\ runner.pc = "down"
    /\ IF ~cfg.router_has_broker \/ ~answered
       THEN /\ runner' = [RunnerDown EXCEPT !.pc = "init_failed"]
            /\ hist' = [hist EXCEPT !.answered = answered]
            /\ UNCHANGED <<ledger_vars, bk, rk, ss, wo, wd, rt, trades, files, venue,
                           signals, cfg>>
       ELSE LET active == {s \in DOMAIN venue.pos : venue.pos[s] > 0}
                live == IF posfail THEN {} ELSE active
                w0 == [World EXCEPT !.protections = files.protections]
                w1 == reconcile_on_startup(reconcile_protections(w0, active), live,
                                           hist.crashes)
            IN  Commit(w1, [RunnerDown EXCEPT !.pc = "loop_top", !.loop = TRUE,
                                              !.last_seen = files.last_seen],
                       files, [hist EXCEPT !.streak = 0, !.answered = TRUE,
                                           !.listed = live = active])

\* run_forever, loop top with the kill-switch file enabled
KillSwitch(env) ==
    /\ runner.pc = "loop_top"
    /\ files.kill_switch
    /\ LET hb == Heartbeats(runner, files, <<"alive", "stopped">>)
       IN  Commit(handle_kill_switch(World, env),
                  [runner EXCEPT !.kill_switch_active = TRUE, !.pc = "stopped",
                                 !.hb_due = hb.due, !.asleep = FALSE],
                  hb.file, hist)

\* run_forever, loop top: run_strategy up to the end of _check_protective_exits
CycleStart(env) ==
    /\ runner.pc = "loop_top"
    /\ ~files.kill_switch
    /\ hist.cycles < MaxCycles
    /\ LET hb == Heartbeats(runner, files, <<"alive">>)
       IN  Commit(check_protective_exits(World, runner.kill_switch_active, cfg, env),
                  [runner EXCEPT !.pc = "signals", !.hb_due = hb.due,
                                 !.asleep = FALSE],
                  hb.file, [hist EXCEPT !.cycles = @ + 1])

\* run_strategy from the signal reload to the end of the for-loop, or to the
\* point where execute_trade(side="buy") is entered
RunSignals(s, env) ==
    /\ runner.pc = "signals"
    /\ LET sid == signals[s].sid
           pos_qty == IF env.posfail THEN 0 ELSE venue.pos[s]
           open_symbols == {x \in Symbols : ~env.posfail /\ venue.pos[x] > 0}
                           \cup {trades[t].symbol : t \in list_open_trades(trades)}
           buy == /\ signals[s].dir = "long"
                  /\ pos_qty <= 0
                  /\ ~(cfg.max_pos > 0 /\ Cardinality(open_symbols) >= cfg.max_pos)
           sell == signals[s].dir = "short" /\ pos_qty > 0
       IN  IF s \in DOMAIN runner.last_seen /\ runner.last_seen[s] = sid
           THEN CycleOk(World, runner, hist)
           ELSE IF buy
           THEN Commit(World,
                       [runner EXCEPT !.pc = "et_begin",
                                      !.et = [symbol |-> s, signal_id |-> sid,
                                              res |-> "none"]],
                       files, note_execute_trade(hist, s, sid))
           ELSE IF sell
           THEN IF ~env.price_ok
                THEN CycleError(World, note_execute_trade(hist, s, sid), env)
                ELSE CycleOk(execute_trade_sell(World, runner.kill_switch_active,
                                                s, sid, env),
                             seen(runner, s, sid), note_execute_trade(hist, s, sid))
           ELSE CycleOk(World, seen(runner, s, sid), hist)

\* ---- execute_trade(side="buy") ----
\* up to reserve_order: price fetch, pullback, sizing, then the reservation
BeginOutcomes == {"ok", "skip", "price_raises", "reserve_raises"}

ETBegin(out, env) ==
    /\ runner.pc = "et_begin"
    /\ LET s == runner.et.symbol
           sid == runner.et.signal_id
           c == make_client_id(s, "entry", sid)
       IN  IF out \in {"price_raises", "reserve_raises"}
           THEN CycleError(World, hist, env)
           ELSE IF out = "skip" \/ ~reserve_order_ret(orders, c)
           THEN CycleOk(World, seen(runner, s, sid), hist)
           ELSE Commit(w_reserve(World, c, "entry", "buy"),
                       [runner EXCEPT !.pc = "et_upsert"], files, hist)

ETUpsert ==
    /\ runner.pc = "et_upsert"
    /\ Commit([World EXCEPT !.trades = upsert_trade(@, make_trade_id(runner.et.symbol,
                                                        runner.et.signal_id),
                                                    runner.et.symbol, runner.et.signal_id)],
              [runner EXCEPT !.pc = "et_send"], files, hist)

\* the final statuses of an order that is not filled, as execute_trade writes
\* them to the ledger (cancelled is written canceled)
NotFilled == {"rejected", "canceled"}

\* what router.execute_order answers to the entry; dd_block: the daily
\* drawdown guard raised before any venue call; raise: place_order raised
BuyOutcomes == {"filled", "pending", "raise", "dd_block"} \cup NotFilled

\* the venue after an entry order under client_id c; reached: the order got
\* to the venue although place_order raised. A client_id the venue has seen
\* never opens a second order.
venue_buy(v, s, c, out, reached) ==
    IF c \in v.known THEN v
    ELSE IF out = "filled"
    THEN [v EXCEPT !.pos[s] = @ + 1, !.known = @ \cup {c}]
    ELSE IF out = "pending" \/ (out = "raise" /\ reached)
    THEN [v EXCEPT !.working = @ \cup {c}, !.known = @ \cup {c}]
    ELSE v

\* _router_execute_order(side="buy", client_id=entry_client_id)
ETSend(out, reached) ==
    /\ runner.pc = "et_send"
    /\ out = "dd_block" => cfg.mode = "live"
    /\ LET s == runner.et.symbol
           c == make_client_id(s, "entry", runner.et.signal_id)
           dup == c \in venue.known
       IN  /\ dup => out \in {"rejected", "raise", "dd_block"}
           /\ reached => (out = "raise" /\ ~dup)
           /\ IF kill_switch_blocks(runner.kill_switch_active)
              THEN /\ out = "raise" /\ ~reached
                   /\ Commit([World EXCEPT !.blocked = TRUE],
                             [runner EXCEPT !.pc = "et_mark", !.et.res = "raise"],
                             files, hist)
              ELSE IF out = "dd_block"
              THEN Commit(World, [runner EXCEPT !.pc = "et_mark", !.et.res = "raise"],
                          files, hist)
              ELSE Commit([w_call(World, "entry", c, TRUE) EXCEPT
                              !.venue = venue_buy(venue, s, c, out, reached)],
                          [runner EXCEPT !.pc = "et_mark", !.et.res = out],
                          files, hist)

\* execute_trade from mark_order_submitted to its return, then the rest of
\* the for-loop body and of run_strategy
ETMark(env) ==
    /\ runner.pc = "et_mark"
    /\ LET s == runner.et.symbol
           sid == runner.et.signal_id
           c == make_client_id(s, "entry", sid)
           t == make_trade_id(s, sid)
           ks == runner.kill_switch_active
           res == runner.et.res
           w == World
           w_failed == [w_final(w, c, "failed") EXCEPT
                           !.trades = abort_trade(@, t, <<"entry_failed", "raise">>)]
           w_rejected == [w_final(w_submitted(w, c), c, res) EXCEPT
                             !.trades = abort_trade(@, t, <<"entry_not_filled", res>>)]
           w_filled == arm_after_entry(
                           [w_final(w_submitted(w, c), c, "filled") EXCEPT
                              !.trades = set_trade_entry(@, t)],
                           ks, cfg, s, t, sid, env)
           w_pending == check_protective_exits(
                            set_protection(w_submitted(w, c), s,
                                           ProtRec("pending_entry", t, sid)),
                            ks, cfg, env)
       IN  CycleOk(CASE res = "raise" -> w_failed
                     [] res \in NotFilled -> w_rejected
                     [] res = "filled" -> w_filled
                     [] OTHER -> w_pending,
                   seen(runner, s, sid), hist)

\* ---- the environment ----
\* a new latest row is published (the rows are read at the signal reload only)
NewSignal(s, d) ==
    /\ runner.pc = "signals"
    /\ signals[s].sid < MaxSignals
    /\ signals' = [signals EXCEPT ![s] = [sid |-> @.sid + 1, dir |-> d]]
    /\ UNCHANGED <<ledger_vars, bk, rk, ss, wo, wd, rt, trades, runner, files, venue, cfg, hist>>

VenueFills(c) ==
    /\ c \in venue.working
    /\ venue' = [venue EXCEPT !.working = @ \ {c}, !.pos[c[1]] = @ + 1]
    /\ UNCHANGED <<ledger_vars, bk, rk, ss, wo, wd, rt, trades, runner, files, signals, cfg, hist>>

VenueCancels(c) ==
    /\ c \in venue.working
    /\ venue' = [venue EXCEPT !.working = @ \ {c}]
    /\ UNCHANGED <<ledger_vars, bk, rk, ss, wo, wd, rt, trades, runner, files, signals, cfg, hist>>

\* a plan order fires or the position is closed by hand
PositionCloses(s) ==
    /\ venue.pos[s] > 0
    /\ venue' = [venue EXCEPT !.pos[s] = 0, !.plans = @ \ {s}]
    /\ UNCHANGED <<ledger_vars, bk, rk, ss, wo, wd, rt, trades, runner, files, signals, cfg, hist>>

\* the protection of s grows older than the limit of its mode (the age is
\* read by _check_protective_exits only)
TimePasses(s) ==
    /\ runner.pc = "loop_top"
    /\ hist.cycles < MaxCycles
    /\ s \in DOMAIN runner.protections
    /\ ~runner.protections[s].old
    /\ runner' = [runner EXCEPT !.protections[s].old = TRUE]
    /\ files' = [files EXCEPT !.protections =
                    [x \in DOMAIN @ |-> IF x = s THEN [@[x] EXCEPT !.old = TRUE] ELSE @[x]]]
    /\ UNCHANGED <<ledger_vars, bk, rk, ss, wo, wd, rt, trades, venue, signals, cfg, hist>>

\* the operator (or a guard) enables the kill-switch file (the file is read
\* at the loop top only)
EnableKillSwitch ==
    /\ ~files.kill_switch
    /\ runner.pc = "loop_top"
    /\ hist.cycles < MaxCycles
    /\ files' = [files EXCEPT !.kill_switch = TRUE]
    /\ UNCHANGED <<ledger_vars, bk, rk, ss, wo, wd, rt, trades, runner, venue, signals, cfg, hist>>

\* heartbeat_every_s passes since the last heartbeat write while the runner
\* is suspended at an await
HeartbeatDue ==
    /\ runner.loop
    /\ runner.pc \notin {"down", "init_failed", "stopped", "cancelled"}
    /\ ~runner.hb_due
    /\ runner' = [runner EXCEPT !.hb_due = TRUE]
    /\ UNCHANGED <<ledger_vars, bk, rk, ss, wo, wd, rt, trades, files, venue, signals, cfg, hist>>

\* the run_forever task is cancelled at an await: inside run_strategy
\* (except asyncio.CancelledError) or in the sleep that ends an iteration
InRunStrategy == {"signals", "et_begin", "et_upsert", "et_send", "et_mark", "x_iter"}

Cancel ==
    /\ runner.loop
    /\ runner.pc \in InRunStrategy \/ (runner.pc = "loop_top" /\ runner.asleep)
    /\ LET hb == Heartbeats(runner, files, <<"stopped">>)
       IN  /\ runner' = [runner EXCEPT !.pc = "cancelled", !.hb_due = hb.due,
                                       !.asleep = FALSE]
           /\ files' = hb.file
    /\ hist' = [hist EXCEPT
                  !.interrupted = IF runner.pc \in {"et_upsert", "et_send", "et_mark"}
                                  THEN @ \cup {make_client_id(runner.et.symbol, "entry",
                                                              runner.et.signal_id)}
                                  ELSE @]
    /\ UNCHANGED <<ledger_vars, bk, rk, ss, wo, wd, rt, trades, venue, signals, cfg>>

\* the process dies (crash, kill -9, power) and is started again later
Crash ==
    /\ runner.pc \notin {"down", "init_failed"}
    /\ hist.crashes < MaxCrashes
    /\ runner' = RunnerDown
    /\ hist' = [hist EXCEPT
                  !.crashes = @ + 1,
                  !.interrupted = IF runner.pc \in {"et_upsert", "et_send", "et_mark"}
                                  THEN @ \cup {make_client_id(runner.et.symbol, "entry",
                                                              runner.et.signal_id)}
                                  ELSE @]
    /\ UNCHANGED <<ledger_vars, bk, rk, ss, wo, wd, rt, trades, files, venue, signals, cfg>>

Next ==
    \/ \E answered \in BOOLEAN, posfail \in BOOLEAN : Start(answered, posfail)
    \/ \E env \in EnvsAsking({"posfail", "sell", "cancel"}) : KillSwitch(env)
    \/ \E env \in EnvsAsking(ExitFields(runner.protections)) : CycleStart(env)
    \/ \E s \in Symbols, env \in EnvsAsking({"posfail", "price_ok", "sell"}) :
          RunSignals(s, env)
    \/ \E out \in BeginOutcomes, env \in EnvsAsking(ErrorFields) : ETBegin(out, env)
    \/ ETUpsert
    \/ \E out \in BuyOutcomes, reached \in BOOLEAN : ETSend(out, reached)
    \/ \E env \in EnvsAsking(MarkFields(runner.et.res)) : ETMark(env)
    \/ \E s \in Symbols, d \in Dirs : NewSignal(s, d)
    \/ \E c \in venue.working : VenueFills(c)
    \/ \E c \in venue.working : VenueCancels(c)
    \/ \E s \in Symbols : PositionCloses(s)
    \/ \E s \in Symbols : TimePasses(s)
    \/ EnableKillSwitch
    \/ HeartbeatDue
    \/ Cancel
    \/ Crash

Spec == Init /\ [][Next]_vars

(***************************************************************************)
(* SpecTrail: _update_dynamic_trailing on a protection record that carries *)
(* sl, atr and qty.  The records execute_trade and _check_protective_exits *)
(* write have no "atr" key (only pending_entry has one), so such a record   *)
(* is one that initialize() read from protections.json; the records the    *)
(* runner arms are started from as well (ArmedRec).  Prices are whole       *)
(* numbers of a grid on which every product and quotient of the function   *)
(* is exact for the prices and the ATR explored; an answer of the venue or  *)
(* the ledger that the call does not ask for is left at one value; the     *)
(* knobs are the                                                           *)
(* defaults the function passes to getattr(Config, ...).                   *)
(***************************************************************************)
MaxTrail == 2          \* stop moves, and trail client ids sent to the venue, explored

BreakevenAtrPct == 100        \* DYNAMIC_TRAIL_BREAKEVEN_ATR 1.0
BreakevenBufferAtrPct == 5    \* DYNAMIC_TRAIL_BREAKEVEN_BUFFER_ATR 0.05
TriggerDistAtrPct == 250      \* DYNAMIC_TRAIL_TRIGGER_ATR 2.5
TrailOffsetAtrPct == 80       \* DYNAMIC_TRAIL_OFFSET_ATR 0.8
MinStepAtrPct == 10           \* DYNAMIC_TRAIL_MIN_STEP_ATR 0.10
MinGapPerMille == 1           \* DYNAMIC_TRAIL_MIN_GAP_PCT 0.001
MinGapAtrPct == 5             \* atr * 0.05 of min_gap

\* the current prices explored (0: get_current_price gave none), the ATR of
\* the record, the stop it starts with (execute_trade: entry - sl_mult * atr),
\* its take-profit (0: none), the entry price the record or the
\* ledger knows (0: none), and the venue's price step (10 ** -pricePrecision)
TrailPrices == {0, 94000, 101000, 104000}
TrailAtrs == {1000}
TrailStops == {97500}
TrailTps == {0, 105000}
TrailEntries == {0, 100000}
PriceTicks == {10, 1000}

Max2(a, b) == IF a >= b THEN a ELSE b
Min2(a, b) == IF a <= b THEN a ELSE b

\* x * pct / 100
Pct(x, pct) == (x * pct) \div 100

\* new_sl_candidate is None, and the function returning False
NoSl == 0

TrailRec(mode, trade_id, sid, atr, sl_order) ==
    [mode |-> mode, trade_id |-> trade_id, signal_id |-> sid, old |-> FALSE,
     atr |-> atr, sl |-> 97500, sl_order |-> sl_order,
     sl_client_id |-> make_client_id("BTCUSDT", "sl", sid),
     qty |-> 1, tp |-> 0, entry_price |-> 0, max_price |-> 0, trail_count |-> 0]

\* the record as execute_trade and the pending resolution of
\* _check_protective_exits write it: the keys of rec without "atr" (the keys
\* that prot.get reads with a default are kept at that default)
ArmedRec(rec) == [k \in DOMAIN rec \ {"atr"} |-> rec[k]]

\* the guards of lines 540-568: mode, and sl, atr, qty all > 0
trail_ready(p) ==
    /\ p.mode \in {"synthetic", "native"}
    /\ "atr" \in DOMAIN p
    /\ p.sl > 0 /\ p.atr > 0 /\ p.qty > 0

\* _make_client_id(broker, symbol, "slt", "<signal_id>|trail|<new_sl>")
trail_client_id(s, sid, new_sl) == make_client_id(s, "slt", <<sid, "trail", new_sl>>)

TrailEnvs ==
    {e \in [cooled : BOOLEAN, reserve : {"ok", "raises"}, cancel : {"ok", "fail"},
            place : {"ok", "fail"}, posfail : BOOLEAN, sell : {"filled", "raise"}] :
        /\ ~e.cooled => e.reserve = "ok" /\ e.cancel = "ok"
        /\ e.cancel = "fail" => e.place = "ok"
        /\ e.place = "ok" => ~e.posfail /\ e.sell = "filled"}

\* ok after the try/except around reserve_order of the trail step
trail_reserve_ok(ord, c, reserve) ==
    IF reserve = "raises" THEN TRUE ELSE reserve_order_ret(ord, c)

\* max(cp * min_gap_pct, atr * 0.05)
min_gap(p, cp) == Max2((cp * MinGapPerMille) \div 1000, Pct(p.atr, MinGapAtrPct))

\* the watermark of a long record after this price
watermark(p, cp) == Max2(IF p.max_price <= 0 THEN cp ELSE p.max_price, cp)

\* stage 1, breakeven: the candidate, or NoSl
breakeven_sl(p, cp) ==
    LET be_sl == Min2(p.entry_price + Pct(p.atr, BreakevenBufferAtrPct),
                      cp - min_gap(p, cp))
    IN  IF /\ p.entry_price > 0
           /\ (cp - p.entry_price) * 100 >= BreakevenAtrPct * p.atr
           /\ be_sl > p.sl
        THEN be_sl ELSE NoSl

\* stage 2, the squeezed offset of the trail below the watermark
dynamic_offset(p, cp) ==
    LET base_offset == Pct(p.atr, TrailOffsetAtrPct)
        dist_remain == p.tp - watermark(p, cp)
        total_run == p.tp - p.entry_price
        clipped == Max2(0, Min2(total_run, dist_remain))
    IN  IF p.tp <= 0 THEN base_offset
        ELSE IF total_run <= 0 THEN Max2(base_offset, base_offset \div 10)
        ELSE Max2((base_offset * clipped) \div total_run, base_offset \div 10)

\* the quotient of the squeeze is exact on the grid for this record and price
squeeze_exact(p, cp) ==
    (p.tp > 0 /\ p.tp > p.entry_price) =>
        (Pct(p.atr, TrailOffsetAtrPct)
            * Max2(0, Min2(p.tp - p.entry_price, p.tp - watermark(p, cp))))
          % (p.tp - p.entry_price) = 0

trail_sl(p, cp) == Min2(watermark(p, cp) - dynamic_offset(p, cp), cp - min_gap(p, cp))

\* new_sl_candidate of the two stages, kept min_gap below the price, or NoSl
stop_candidate(p, cp) ==
    LET be == breakeven_sl(p, cp)
        dist == IF cp >= p.sl THEN cp - p.sl ELSE p.sl - cp
        cand == IF dist * 100 > p.atr * TriggerDistAtrPct
                THEN IF be = NoSl THEN trail_sl(p, cp) ELSE Max2(be, trail_sl(p, cp))
                ELSE be
    IN  IF cand = NoSl THEN NoSl ELSE Min2(cand, cp - min_gap(p, cp))

\* new_stop without the minimal-step check of lines 735-738
new_stop_unchecked(p, cp) == stop_candidate(p, cp)

\* the stop the function decides on before the mode branches, or NoSl: a
\* long stop is moved only when it rises by more than the minimal step
new_stop(p, cp) ==
    LET new_sl == stop_candidate(p, cp) IN
    IF new_sl = NoSl \/ new_sl <= p.sl + Pct(p.atr, MinStepAtrPct) THEN NoSl
    ELSE new_sl

\* broker.normalize_price: Decimal.quantize(10 ** -precision, ROUND_DOWN)
normalize_price(price, tick) == (price \div tick) * tick

update_dynamic_trailing(w, ks, c, s, cp, env) ==
    LET p0 == w.protections[s]
        \* prot["max_price"] is written in place before the stages
        p == [p0 EXCEPT !.max_price = watermark(p0, cp)]
        wm == [w EXCEPT !.protections[s] = p]
        raw_sl == new_stop(p, cp)
        live_native == p.mode = "native" /\ c.mode = "live"
        new_sl == IF live_native /\ c.broker_native
                  THEN normalize_price(raw_sl, w.venue.tick) ELSE raw_sl
        moved == [p EXCEPT !.sl = new_sl, !.trail_count = @ + 1]
        tc == trail_client_id(s, p.signal_id, new_sl)
        reserved == env.reserve = "ok" /\ reserve_order_ret(w.orders, tc)
        w1 == IF env.reserve = "ok" THEN w_reserve(wm, tc, "sl_trail", "sell") ELSE wm
        cancels == p.sl_order /\ c.broker_native
        w2 == IF cancels THEN w_call(w1, "trail_cancel", tc, reserved) ELSE w1
        w3 == w_call(w_final(w2, p.sl_client_id, "canceled"), "trail_place", tc, reserved)
    IN  IF ks \/ ~trail_ready(p0) \/ cp <= 0 \/ ~env.cooled THEN w
        ELSE IF raw_sl = NoSl THEN wm
        ELSE IF ~live_native THEN set_protection(wm, s, moved)
        ELSE IF ~trail_reserve_ok(w.orders, tc, env.reserve) THEN wm
        ELSE IF cancels /\ env.cancel = "fail" THEN w_final(w2, tc, "failed")
        ELSE IF ~c.broker_native THEN w_final(w2, tc, "failed")
        ELSE IF env.place = "ok"
        THEN set_protection(w_submitted(w3, tc), s,
                            [moved EXCEPT !.sl_order = TRUE, !.sl_client_id = tc])
        ELSE LET w4 == w_final(w3, tc, "failed") IN
             IF strict_protections_enabled(c)
             THEN panic_close_unprotected(w4, ks, s, p.trade_id, p.signal_id,
                                          env.posfail, env.sell)
             ELSE w4

\* a running process whose protections hold one trailable record for a
\* position the venue holds
InitTrail ==
    /\ InitLedgerVars
    /\ bk = BrokerIdle /\ rk = RiskIdle /\ ss = StoreIdle /\ wo = WaitIdle /\ wd = WatchdogIdle
    /\ rt = RouterIdle
    /\ trades = upsert_trade([t \in {} |-> 0], make_trade_id("BTCUSDT", 1), "BTCUSDT", 1)
    /\ \E mode \in {"synthetic", "native", "pending_entry"}, atr \in TrailAtrs \cup {0},
          sl_order \in BOOLEAN, sl \in TrailStops, tp \in TrailTps,
          entry \in TrailEntries, qty \in {1, -1}, armed \in BOOLEAN :
          LET rec == [TrailRec(mode, make_trade_id("BTCUSDT", 1), 1, atr, sl_order)
                        EXCEPT !.sl = sl, !.tp = tp, !.qty = qty,
                               !.entry_price = entry]
          IN
          \* armed: the record is the one this process wrote after an entry on
          \* a signal with that atr; otherwise it was read from protections.json
          /\ armed => (mode # "pending_entry" /\ atr > 0 /\ qty > 0 /\ tp > 0
                          /\ entry = 0 /\ sl_order = (mode = "native"))
          /\ runner = [RunnerDown EXCEPT
                         !.pc = "loop_top", !.loop = TRUE,
                         !.protections =
                            ("BTCUSDT" :> IF armed THEN ArmedRec(rec) ELSE rec)]
          /\ files = [FilesEmpty EXCEPT !.protections = runner.protections]
    /\ \E tick \in PriceTicks :
          venue = [VenueEmpty EXCEPT !.pos["BTCUSDT"] = 1, !.plans = {"BTCUSDT"},
                                     !.tick = tick]
    /\ signals = [s \in Symbols |-> [sid |-> 1, dir |-> "long"]]
    /\ cfg \in {c \in Cfgs : c.router_has_broker}
    /\ \E atr \in TrailAtrs :
          hist = [HistEmpty EXCEPT
                    !.atr = IF "atr" \in DOMAIN runner.protections["BTCUSDT"]
                            THEN runner.protections["BTCUSDT"].atr ELSE atr]

\* history: the check finds the price of a long record more than
\* trigger_dist_atr * atr above its stop, atr being that of the signal the
\* record was armed from, with the cooldown passed and no kill switch
far_check(p, ks, cp, env) ==
    /\ ~ks /\ env.cooled /\ cp > 0 /\ p.qty > 0
    /\ p.mode \in {"synthetic", "native"}
    /\ hist.atr > 0
    /\ (cp - p.sl) * 100 > TriggerDistAtrPct * hist.atr

\* _update_dynamic_trailing(symbol, current_price, prot), as called at line 968
\* (hist.far keeps the stop the first such check found)
Trail(s, cp, env) ==
    /\ runner.pc = "loop_top"
    /\ s \in DOMAIN runner.protections
    /\ runner.protections[s].trail_count < MaxTrail
    /\ Cardinality(DOMAIN hist.sends) < MaxTrail
    /\ "atr" \in DOMAIN runner.protections[s] => squeeze_exact(runner.protections[s], cp)
    /\ Commit(update_dynamic_trailing(World, runner.kill_switch_active, cfg, s, cp, env),
              runner, files,
              [hist EXCEPT !.far =
                  IF @ = 0 /\ far_check(runner.protections[s],
                                        runner.kill_switch_active, cp, env)
                  THEN runner.protections[s].sl ELSE @])

NextTrail == \E s \in Symbols, cp \in TrailPrices, env \in TrailEnvs : Trail(s, cp, env)

SpecTrail == InitTrail /\ [][NextTrail]_vars

\* venue calls made under a client_id that the caller reserves first
ReservingKinds ==
    {"entry", "signal_exit", "sl_tp_exit", "time_exit", "panic_exit", "native_sl",
     "native_tp", "trail_cancel", "trail_place"}

\* C5: the runner makes no venue call under a client_id for which
\* reserve_order returned False or raised in that action.
C5_NoVenueCallWithoutReservation ==
    \A r \in hist.calls : r.kind \in ReservingKinds => r.reserved

(***************************************************************************)
(* SpecApi: Spec, and run_strategy called by the owner of the runner       *)
(* object after run_forever has returned (run_strategy and execute_trade   *)
(* are public methods; run_forever returns once the kill switch is         *)
(* handled, so inside run_forever nothing follows the kill switch)         *)
(***************************************************************************)
DirectRunStrategy(env) ==
    /\ runner.pc = "stopped"
    /\ hist.cycles < MaxCycles
    /\ Commit(check_protective_exits(World, runner.kill_switch_active, cfg, env),
              [runner EXCEPT !.pc = "signals", !.loop = FALSE], files,
              [hist EXCEPT !.cycles = @ + 1])

NextApi ==
    \/ Next
    \/ \E env \in EnvsAsking(ExitFields(runner.protections)) : DirectRunStrategy(env)

SpecApi == Init /\ [][NextApi]_vars

\* the entry client_id of the execute_trade frame that has sent its order and
\* not yet reached mark_order_submitted / mark_order_final
EntryInFlight ==
    IF runner.pc = "et_mark"
    THEN {make_client_id(runner.et.symbol, "entry", runner.et.signal_id)}
    ELSE {}

\* C4: every order the runner sends to a venue was preceded by a reserve_order
\* that returned True for its client_id, and once the handler that sent it has
\* finished (the process not having died in between) a mark_order_submitted or
\* mark_order_final for that client_id has followed.
C4_SendsReservedAndMarked ==
    \A r \in hist.calls :
        /\ r.reserved
        /\ r.marked \/ r.cid \in EntryInFlight \/ r.cid \in hist.interrupted

\* C7: when the process died between reserve_order for an entry and the
\* matching mark_order_*, the row of that client_id is reserved or submitted
\* ever after and at most one entry order was sent under it, before and
\* after the restart together.
C7_InterruptedEntrySentOnce ==
    \A c \in hist.interrupted :
        /\ c \in DOMAIN orders
        /\ orders[c].status \in {"reserved", "submitted"}
        /\ (c \in DOMAIN hist.sends => hist.sends[c] <= 1)

\* the process died after the entry order went out, was restarted, met the
\* same signal again, was refused the reservation and finished the cycle
C7_Witness ==
    \E c \in hist.interrupted :
        /\ c \in DOMAIN hist.sends
        /\ hist.sends[c] = 1
        /\ <<c[1], c[3]>> \in hist.et_twice
        /\ runner.pc = "loop_top"
        /\ c[1] \in DOMAIN runner.last_seen
        /\ runner.last_seen[c[1]] = c[3]

\* C8: the trades table holds at most one open trade per (broker, symbol).
C8_OneOpenTradePerSymbol ==
    \A s \in Symbols : Cardinality(open_trades_of(trades, s)) <= 1

\* C9: execute_trade is never entered twice for the same (symbol, fingerprint).
C9_ExecuteTradeOncePerFingerprint == hist.et_twice = {}

\* C10: once _kill_switch_active is set it stays set until the process ends,
\* and no step of the process made while it is set sends anything to a venue.
C10_KillSwitchBlocksOrders ==
    [][runner.kill_switch_active =>
          /\ hist'.sends = hist.sends
          /\ runner'.kill_switch_active \/ runner'.pc = "down"]_vars

\* a _router_execute_order call has raised on the flag, in a process where the
\* kill switch was engaged
C10_Witness ==
    /\ runner.kill_switch_active
    /\ hist.blocked
    /\ runner.pc = "stopped"

(***************************************************************************)
(* Kill-switch handling                                                    *)
(***************************************************************************)
KsRank(op) ==
    CASE op = "cancel_plan_order" -> 1
      [] op = "cancel_all_orders" -> 2
      [] op = "close_position" -> 3

KsOps(log, op) == {i \in 1..Len(log) : log[i].op = op}

\* C11: a kill-switch handling cancels the native plan orders of every
\* native-protected symbol, then cancels the open orders, then closes the
\* positions, all under the trading lock, and ends with the protections map
\* empty in memory and on disk, whatever step failed.
C11_KillSwitchOrderAndClear ==
    [][(~runner.kill_switch_active /\ runner'.kill_switch_active) =>
        LET log == hist'.ks_log IN
        /\ \A i, j \in 1..Len(log) : i < j => KsRank(log[i].op) <= KsRank(log[j].op)
        /\ \A i \in 1..Len(log) : log[i].locked
        /\ \A s \in DOMAIN runner.protections :
              runner.protections[s].mode = "native" =>
                  \E i \in KsOps(log, "cancel_plan_order") : log[i].sym = s
        /\ Cardinality(KsOps(log, "cancel_all_orders")) = 1
        /\ \A i \in KsOps(log, "close_position") : venue.pos[log[i].sym] > 0
        /\ DOMAIN runner'.protections = {}
        /\ DOMAIN files'.protections = {}]_vars

\* a handling that made all three kinds of step, whose plan cancel and whose
\* close failed, and that still left no protection
C11_Witness ==
    /\ runner.kill_switch_active
    /\ runner.pc = "stopped"
    /\ \A op \in {"cancel_plan_order", "cancel_all_orders", "close_position"} :
          KsOps(hist.ks_log, op) # {}
    /\ venue.plans # {}
    /\ \E s \in Symbols : venue.pos[s] > 0
    /\ DOMAIN runner.protections = {}
    /\ DOMAIN files.protections = {}

(***************************************************************************)
(* Heartbeat                                                               *)
(***************************************************************************)
\* the run_forever loop has ended on the kill switch or on a cancellation
LoopStopped ==
    \/ runner.loop /\ runner.pc = "stopped" /\ runner.kill_switch_active
    \/ runner.pc = "cancelled"

\* C12: when the runner loop has stopped because of the kill switch or a
\* cancellation, the heartbeat file's last content has status stopped.
C12_StoppedHeartbeat == LoopStopped => files.heartbeat = "stopped"

(***************************************************************************)
(* Automatic kill switch                                                   *)
(***************************************************************************)
\* a step in which run_forever itself engages the kill switch
AutoEngage ==
    /\ runner.loop
    /\ runner.pc \in InRunStrategy
    /\ ~runner.kill_switch_active
    /\ runner'.kill_switch_active

\* C13: run_forever engages the kill switch exactly in the step in which the
\* RUNNER_MAX_CONSECUTIVE_ERRORSth consecutive cycle fails; a successful cycle
\* puts the counter back to zero; on engaging it writes the kill-switch file,
\* runs the kill-switch handling and returns, and no further cycle starts.
C13_AutoKillSwitchAtLimit ==
    [][/\ AutoEngage <=> (hist'.streak = hist.streak + 1 /\ hist'.streak >= MaxErrors)
       /\ AutoEngage =>
             /\ files'.kill_switch
             /\ KsOps(hist'.ks_log, "cancel_all_orders") # {}
             /\ runner'.pc = "stopped"
       /\ (runner'.loop /\ runner'.pc \notin {"stopped", "cancelled"}) =>
             runner'.consecutive_errors = hist'.streak
       /\ (runner.loop /\ runner.pc = "stopped") => hist'.cycles = hist.cycles]_vars

\* the limit was reached by consecutive failed cycles and the runner stopped
C13_Witness ==
    /\ runner.loop
    /\ runner.pc = "stopped"
    /\ runner.kill_switch_active
    /\ hist.streak = MaxErrors
    /\ hist.cycles = MaxErrors
    /\ files.kill_switch

(***************************************************************************)
(* SpecRouter: ExecutionRouter.execute_order and its daily drawdown guard  *)
(* (execution_router.py). Equity is counted in whole units and             *)
(* MAX_DAILY_DRAWDOWN in percent; dd >= max_dd is compared exactly.        *)
(***************************************************************************)
MaxDays == 2           \* calendar days the router runs explore

EquityLevels == {0, 70, 100}
MaxDdChoices == {0, 30}

\* get_global_account_state: the brokers whose get_account_state raised are
\* left out of the sum and of the details
snap_equity(equity, failing) ==
    LET RECURSIVE sum(_)
        sum(S) == IF S = {} THEN 0
                  ELSE LET b == CHOOSE x \in S : TRUE IN equity[b] + sum(S \ {b})
    IN  sum(Adapters \ failing)

snap_details(equity, failing) == [b \in Adapters \ failing |-> equity[b]]

\* _ensure_daily_anchor
ensure_daily_anchor(r, failing) ==
    IF r.anchor_date # r.today
    THEN [r EXCEPT !.anchor_date = r.today,
                   !.anchor_equity = snap_equity(r.equity, failing),
                   !.anchor_by_broker = snap_details(r.equity, failing)]
    ELSE r

\* (variant: the limit itself is not yet a breach)
dd_reached_strict(anchor, cur, max_dd) == (anchor - cur) * 100 > max_dd * anchor
\* dd >= max_dd with dd = (anchor - cur) / anchor, anchor > 0
dd_reached(anchor, cur, max_dd) == (anchor - cur) * 100 >= max_dd * anchor

\* _check_daily_drawdown_guard raises, r being the router after
\* _ensure_daily_anchor and failing the brokers missing from its own snapshot
guard_raises(r, failing) ==
    LET anchor == r.anchor_equity
        details == snap_details(r.equity, failing)
    IN  /\ r.live
        /\ r.max_dd > 0
        /\ anchor > 0
        /\ \/ \E b \in DOMAIN details :
                 LET anchor_b == IF b \in DOMAIN r.anchor_by_broker
                                 THEN r.anchor_by_broker[b] ELSE 0
                 IN  /\ anchor_b > 0
                     /\ details[b] > 0
                     /\ dd_reached(anchor_b, details[b], r.max_dd)
           \/ dd_reached(anchor, snap_equity(r.equity, failing), r.max_dd)

\* execute_order calls the guard for a buy in live mode only
guarded(r, side) == r.live /\ side = "buy"

InitRouter ==
    /\ InitLedgerVars
    /\ bk = BrokerIdle /\ rk = RiskIdle /\ ss = StoreIdle /\ wo = WaitIdle /\ wd = WatchdogIdle
    /\ InitRunnerIdle
    /\ \E live \in BOOLEAN, max_dd \in MaxDdChoices, eq \in [Adapters -> EquityLevels] :
          rt = [RouterIdle EXCEPT !.live = live, !.max_dd = max_dd, !.equity = eq]

\* execute_order(symbol, side, quantity): the guard for a buy in live mode,
\* the quantity check, then broker.place_order
RExecuteOrder(side, qty, fail_anchor, fail_snap) ==
    LET r1 == IF guarded(rt, side) /\ rt.max_dd > 0
              THEN ensure_daily_anchor(rt, fail_anchor) ELSE rt
        refused == guarded(rt, side) /\ guard_raises(r1, fail_snap)
        outcome == IF refused THEN "refused"
                   ELSE IF qty <= 0 THEN "bad_qty" ELSE "placed"
    IN  /\ rt' = [r1 EXCEPT
                    !.refused_on = IF refused THEN rt.today ELSE @,
                    !.last = [side |-> side, outcome |-> outcome,
                              anchor |-> r1.anchor_equity,
                              current |-> snap_equity(rt.equity, {}),
                              after_refusal |-> rt.refused_on = rt.today]]
        /\ UNCHANGED <<ledger_vars, bk, rk, ss, wo, wd, runner_vars>>

\* an account's equity moves
REquityChanges(b, e) ==
    /\ rt.equity[b] # e
    /\ rt' = [rt EXCEPT !.equity[b] = e]
    /\ UNCHANGED <<ledger_vars, bk, rk, ss, wo, wd, runner_vars>>

\* date.today() changes
RNextDay ==
    /\ rt.today < MaxDays
    /\ rt' = [rt EXCEPT !.today = @ + 1]
    /\ UNCHANGED <<ledger_vars, bk, rk, ss, wo, wd, runner_vars>>

NextRouter ==
    \/ \E side \in {"buy", "sell"}, qty \in {0, 1},
          fail_anchor \in SUBSET Adapters, fail_snap \in SUBSET Adapters :
          RExecuteOrder(side, qty, fail_anchor, fail_snap)
    \/ \E b \in Adapters, e \in EquityLevels : REquityChanges(b, e)
    \/ RNextDay

SpecRouter == InitRouter /\ [][NextRouter]_vars

\* C14: in live mode with MAX_DAILY_DRAWDOWN > 0 a buy whose drawdown against
\* the day's anchor equity is at or over the limit is refused before any
\* place_order call, and a sell is never refused because of drawdown.
C14_DrawdownRefusesBuyOnly ==
    /\ (/\ rt.last.side = "buy"
        /\ rt.live
        /\ rt.max_dd > 0
        /\ rt.last.anchor > 0
        /\ (rt.last.anchor - rt.last.current) * 100 >= rt.max_dd * rt.last.anchor)
       => rt.last.outcome = "refused"
    /\ rt.last.side = "sell" => rt.last.outcome # "refused"

\* a buy refused with the drawdown exactly at the limit
C14_Witness ==
    /\ rt.live
    /\ rt.max_dd > 0
    /\ rt.last.anchor > 0
    /\ (rt.last.anchor - rt.last.current) * 100 = rt.max_dd * rt.last.anchor
    /\ rt.last.side = "buy"
    /\ rt.last.outcome = "refused"

\* C15: once the drawdown guard has refused a buy, every later buy of the
\* same day is refused too, whatever the equity does in between.
C15_RefusalHeldForTheDay ==
    (rt.last.side = "buy" /\ rt.last.after_refusal) => rt.last.outcome = "refused"

(***************************************************************************)
(* Protections                                                             *)
(***************************************************************************)
\* a step that ends startup reconciliation, a protective-exit check or an entry
RunnerActionEnds ==
    \/ runner.pc = "down" /\ runner'.pc = "loop_top"
    \/ runner.pc = "loop_top" /\ runner'.pc = "signals"
    \/ runner.pc = "et_mark" /\ runner'.pc \in {"loop_top", "stopped"}

\* a panic close has been attempted for s: its panic_exit id was reserved
PanicAttempted(ord, s) == \E c \in DOMAIN ord : c[1] = s /\ c[2] = "pxit"

\* C16: at the end of an entry, of a protective-exit check and of the startup
\* reconciliation, every symbol with a non-zero venue position has a
\* protection entry or has had a panic close attempted.
C16_PositionsProtected ==
    [][RunnerActionEnds =>
        \A s \in Symbols :
            venue'.pos[s] > 0 =>
                s \in DOMAIN runner'.protections \/ PanicAttempted(orders', s)]_vars

(***************************************************************************)
(* SpecExits: _check_protective_exits over two protected positions, one    *)
(* iteration of its for-loop at a time. The loop collects the symbols to   *)
(* drop in to_remove and pops them after the last iteration; an iteration  *)
(* that raises, or a cancellation at one of its awaits, leaves the loop    *)
(* before that. The records here are native or synthetic.                  *)
(***************************************************************************)
ExitSymbols == <<"BTCUSDT", "ETHUSDT">>

ExitSet == {ExitSymbols[i] : i \in 1..Len(ExitSymbols)}

\* execute_trade(side="buy") of s under signal fingerprint 1 whose entry filled
entered(w, c, s, env) ==
    LET ec == make_client_id(s, "entry", 1)
        t == make_trade_id(s, 1)
        w1 == [w_reserve(w, ec, "entry", "buy") EXCEPT
                 !.trades = upsert_trade(@, t, s, 1)]
        w2 == [w_call(w1, "entry", ec, TRUE) EXCEPT
                 !.venue = venue_buy(@, s, ec, "filled", FALSE)]
    IN  arm_after_entry(w_final(w_submitted(w2, ec), ec, "filled"),
                        FALSE, c, s, t, 1, env)

\* between two cycles of run_forever, after the entries of both symbols
InitExits ==
    /\ last_call = NoCall
    /\ held = {}
    /\ inserted_by = [c \in {} |-> 0]
    /\ bk = BrokerIdle /\ rk = RiskIdle /\ ss = StoreIdle /\ wo = WaitIdle /\ wd = WatchdogIdle
    /\ rt = RouterIdle
    /\ signals = [s \in ExitSet |-> [sid |-> 1, dir |-> "long"]]
    /\ cfg \in {c \in Cfgs : c.router_has_broker}
    /\ \E e1 \in EnvsAsking({"place"}), e2 \in EnvsAsking({"place"}) :
         LET w0 == [orders |-> [c \in {} |-> 0], trades |-> [t \in {} |-> 0],
                    protections |-> [s \in {} |-> 0],
                    protections_file |-> [s \in {} |-> 0],
                    venue |-> [VenueEmpty EXCEPT !.pos = [s \in ExitSet |-> 0]],
                    calls |-> {}, blocked |-> FALSE, sends |-> [c \in {} |-> 0],
                    ks_log |-> <<>>, lock |-> FALSE, moves |-> {}]
             w2 == entered(entered(w0, cfg, ExitSymbols[1], e1), cfg,
                           ExitSymbols[2], e2)
         IN  /\ orders = w2.orders
             /\ trades = w2.trades
             /\ venue = w2.venue
             /\ runner = [RunnerDown EXCEPT !.pc = "loop_top", !.loop = TRUE,
                                            !.protections = w2.protections,
                                            !.asleep = TRUE]
             /\ files = [FilesEmpty EXCEPT !.protections = w2.protections_file,
                                           !.heartbeat = "alive"]
             /\ hist = [HistEmpty EXCEPT !.calls = w2.calls, !.sends = w2.sends]

\* run_strategy enters _check_protective_exits: list_all_positions, then the
\* for-loop over the records
XBegin(posfail) ==
    /\ runner.pc = "loop_top"
    /\ ~files.kill_switch
    /\ hist.cycles < MaxCycles
    /\ DOMAIN runner.protections # {}
    /\ LET hb == Heartbeats(runner, files, <<"alive">>)
       IN  Commit(World,
                  [runner EXCEPT !.pc = "x_iter", !.hb_due = hb.due, !.asleep = FALSE,
                                 !.x = [i |-> 1, to_remove |-> {},
                                        posfail |-> posfail, dirty |-> FALSE]],
                  hb.file, [hist EXCEPT !.cycles = @ + 1])

\* one iteration of the for-loop: the ledger and the venue change at once,
\* the record stays in self._protections and its symbol goes to to_remove
XIter(env) ==
    /\ runner.pc = "x_iter"
    /\ runner.x.i <= Len(ExitSymbols)
    /\ LET s == ExitSymbols[runner.x.i]
           e == [env EXCEPT !.posfail = runner.x.posfail]
           w1 == exits_symbol(World, runner.kill_switch_active, cfg, s, e)
           listed == s \in DOMAIN runner.protections
           removed == listed /\ s \notin DOMAIN w1.protections
       IN  Commit([w1 EXCEPT !.protections = runner.protections],
                  [runner EXCEPT !.x.i = @ + 1,
                                 !.x.to_remove = IF removed THEN @ \cup {s} ELSE @,
                                 !.x.dirty = @ \/ (listed /\ e.price_ok)],
                  files, hist)

\* an iteration raises out of the loop: ledger.reserve_order of a synthetic
\* SL / TP exit raises (sqlite3 error), outside every try of the loop;
\* run_forever counts a failed cycle (the limit is not reached here)
XRaise ==
    /\ runner.pc = "x_iter"
    /\ runner.x.i <= Len(ExitSymbols)
    /\ runner.consecutive_errors + 1 < MaxErrors
    /\ LET s == ExitSymbols[runner.x.i] IN
         /\ s \in DOMAIN runner.protections
         /\ runner.protections[s].mode = "synthetic"
         /\ ~runner.x.posfail /\ venue.pos[s] > 0
    /\ CycleError(World, hist, EnvDefault)

\* after the last iteration: pop the symbols of to_remove, persist when dirty;
\* no symbol has a new signal fingerprint, run_strategy returns
XEnd ==
    /\ runner.pc = "x_iter"
    /\ runner.x.i > Len(ExitSymbols)
    /\ LET w1 == [World EXCEPT !.protections =
                     [s \in DOMAIN @ \ runner.x.to_remove |-> @[s]]]
           w2 == IF runner.x.dirty \/ runner.x.to_remove # {}
                 THEN persist_protections(w1) ELSE w1
       IN  CycleOk(w2, [runner EXCEPT !.x = NoExits], hist)

NextExits ==
    \/ \E posfail \in BOOLEAN : XBegin(posfail)
    \/ \E env \in EnvsAsking({"price_ok", "hit", "sell", "fired"}) : XIter(env)
    \/ XRaise
    \/ XEnd
    \/ Cancel
    \/ \E s \in ExitSet : runner.pc = "loop_top" /\ PositionCloses(s)
    \/ \E s \in ExitSet : TimePasses(s)

SpecExits == InitExits /\ [][NextExits]_vars

\* C17: outside the for-loop of _check_protective_exits, every entry of the
\* runner's protections either has mode pending_entry or names a trade_id
\* whose ledger trade is open
C17_ProtectionNamesOpenTrade ==
    runner.pc # "x_iter" =>
        \A s \in DOMAIN runner.protections :
            LET p == runner.protections[s] IN
            \/ p.mode = "pending_entry"
            \/ /\ p.trade_id \in DOMAIN trades
               /\ trades[p.trade_id].status = "open"

\* C18: startup reconciliation has run and _check_protective_exits has just
\* read the positions and returned; every symbol with an open ledger trade
\* then has a non-zero venue position, or still has a protection entry the
\* next check will resolve
C18_OpenTradeHasPosition ==
    [][(runner.pc = "loop_top" /\ runner'.pc = "signals") =>
          \A s \in Symbols :
              has_open_trade(trades', s) =>
                  venue'.pos[s] > 0 \/ s \in DOMAIN runner'.protections]_vars

DefaultRiskPerTrade == 100     \* getattr(Config, "RISK_PER_TRADE", 0.01)

\* confidence is None
NoConfidence == 0 - 1

\* --risk_level was not given (args.risk_level is None)
NoOverride == 0 - 1

\* max(p_long, p_short) of the latest row, params["conf"],
\* args.risk_level, and Config.MAX_RISK_PER_TRADE
RiskConfidences == {NoConfidence, 0, 550000, 700000, 1000000}
RiskThresholds == {500000, 600000, 700000}
RiskOverrides == {NoOverride, 0, 10, 100, 500}
MaxRisks == {200, 300}

\* base_risk of run_strategy: the command-line override, else the Config value
base_risk_of(cli) == IF cli # NoOverride THEN cli ELSE DefaultRiskPerTrade

\* the returned risk times den
compute_risk_per_trade(confidence, base_risk, max_risk, threshold) ==
    LET den == 1000000 - threshold + 1
        scale == Max2(0, Min2(den, confidence - threshold))
        risk == base_risk * den + (max_risk - base_risk) * scale
    IN  IF confidence = NoConfidence THEN base_risk * den
        ELSE Max2(base_risk * den, Min2(max_risk * den, risk))

InitRisk ==
    /\ InitLedgerVars
    /\ bk = BrokerIdle
    /\ rt = RouterIdle
    /\ InitRunnerIdle
    /\ rk = RiskIdle /\ ss = StoreIdle /\ wo = WaitIdle /\ wd = WatchdogIdle

\* run_strategy up to risk_this_trade for one symbol
ComputeRisk(cli, confidence, threshold, max_risk) ==
    /\ rk' = [confidence |-> confidence, threshold |-> threshold,
              base_risk |-> base_risk_of(cli), max_risk |-> max_risk,
              den |-> 1000000 - threshold + 1,
              risk |-> compute_risk_per_trade(confidence, base_risk_of(cli),
                                              max_risk, threshold),
              done |-> TRUE]
    /\ UNCHANGED <<ledger_vars, bk, rt, ss, wo, wd, runner_vars>>

NextRisk ==
    \E cli \in RiskOverrides, confidence \in RiskConfidences,
       threshold \in RiskThresholds, max_risk \in MaxRisks :
        ComputeRisk(cli, confidence, threshold, max_risk)

SpecRisk == InitRisk /\ [][NextRisk]_vars

\* C20: the risk _compute_risk_per_trade returns lies between the base risk
\* and the maximal risk it was given, whatever the confidence, the threshold
\* and the base risk (a command-line override included)
C20_RiskWithinBaseAndMax ==
    rk.done =>
        /\ rk.base_risk * rk.den <= rk.risk
        /\ rk.risk <= rk.max_risk * rk.den

(***************************************************************************)
(* SpecSlots: run_strategy over two symbols with MAX_OPEN_POSITIONS = 1,   *)
(* one symbol of the for-loop over self.signals per step.  The adapter's   *)
(* name is the name the router routes the symbol to, so has_open_trade     *)
(* after an entry looks under the broker execute_trade wrote.  One cycle   *)
(* is followed from each state between two cycles.                         *)
(***************************************************************************)
\* execute_trade(side="buy") from reserve_order to its return
execute_trade_buy(w, ks, c, s, sid, out, reached, env) ==
    LET ec == make_client_id(s, "entry", sid)
        t == make_trade_id(s, sid)
    IN  IF ~reserve_order_ret(w.orders, ec) THEN w
        ELSE LET w1 == [w_reserve(w, ec, "entry", "buy") EXCEPT
                          !.trades = upsert_trade(@, t, s, sid)]
                 res == IF kill_switch_blocks(ks) \/ out = "dd_block"
                        THEN "raise" ELSE out
                 w2 == IF kill_switch_blocks(ks) THEN [w1 EXCEPT !.blocked = TRUE]
                       ELSE IF out = "dd_block" THEN w1
                       ELSE [w_call(w1, "entry", ec, TRUE) EXCEPT
                               !.venue = venue_buy(@, s, ec, out, reached)]
             IN  CASE res = "raise" ->
                        [w_final(w2, ec, "failed") EXCEPT
                           !.trades = abort_trade(@, t, <<"entry_failed", "raise">>)]
                   [] res \in NotFilled ->
                        [w_final(w_submitted(w2, ec), ec, res) EXCEPT
                           !.trades = abort_trade(@, t, <<"entry_not_filled", res>>)]
                   [] res = "filled" ->
                        arm_after_entry(
                            [w_final(w_submitted(w2, ec), ec, "filled") EXCEPT
                               !.trades = set_trade_entry(@, t)],
                            ks, c, s, t, sid, env)
                   [] OTHER ->
                        check_protective_exits(
                            set_protection(w_submitted(w2, ec), s,
                                           ProtRec("pending_entry", t, sid)),
                            ks, c, env)

\* between two cycles of run_forever: the first symbol is flat or was entered
\* under fingerprint 1, and each symbol has a latest row
InitSlots ==
    /\ last_call = NoCall
    /\ held = {}
    /\ inserted_by = [c \in {} |-> 0]
    /\ bk = BrokerIdle /\ rk = RiskIdle /\ ss = StoreIdle /\ wo = WaitIdle /\ wd = WatchdogIdle
    /\ rt = RouterIdle
    /\ \E d \in Dirs, n \in 1..MaxSignals :
         signals = [s \in ExitSet |->
                      IF s = ExitSymbols[1] THEN [sid |-> n, dir |-> d]
                      ELSE [sid |-> 1, dir |-> "long"]]
    /\ \E c \in Cfgs : c.router_has_broker /\ cfg = [c EXCEPT !.max_pos = 1]
    /\ \E e \in EnvsAsking({"place"}), had \in BOOLEAN :
         LET w0 == [orders |-> [c \in {} |-> 0], trades |-> [t \in {} |-> 0],
                    protections |-> [s \in {} |-> 0],
                    protections_file |-> [s \in {} |-> 0],
                    venue |-> [VenueEmpty EXCEPT !.pos = [s \in ExitSet |-> 0]],
                    calls |-> {}, blocked |-> FALSE, sends |-> [c \in {} |-> 0],
                    ks_log |-> <<>>, lock |-> FALSE, moves |-> {}]
             w1 == IF had THEN entered(w0, cfg, ExitSymbols[1], e) ELSE w0
         IN  /\ orders = w1.orders
             /\ trades = w1.trades
             /\ venue = w1.venue
             /\ runner = [RunnerDown EXCEPT
                            !.pc = "loop_top", !.loop = TRUE,
                            !.protections = w1.protections,
                            !.last_seen = IF had THEN (ExitSymbols[1] :> 1)
                                          ELSE [s \in {} |-> 0],
                            !.asleep = TRUE]
             /\ files = [FilesEmpty EXCEPT
                            !.protections = w1.protections_file,
                            !.last_seen = IF had THEN (ExitSymbols[1] :> 1)
                                          ELSE [s \in {} |-> 0],
                            !.heartbeat = "alive"]
             /\ hist = [HistEmpty EXCEPT !.calls = w1.calls, !.sends = w1.sends]

\* run_strategy up to the for-loop over self.signals: _check_protective_exits,
\* then list_all_positions (positions = [] when it raises) and open_symbols
SBegin(env, posfail) ==
    /\ runner.pc = "loop_top"
    /\ ~files.kill_switch
    /\ hist.cycles = 0
    /\ LET hb == Heartbeats(runner, files, <<"alive">>)
           w1 == check_protective_exits(World, runner.kill_switch_active, cfg, env)
       IN  Commit(w1,
                  [runner EXCEPT
                     !.pc = "s_iter", !.hb_due = hb.due, !.asleep = FALSE,
                     !.rs = [i |-> 1, posfail |-> posfail,
                             open_symbols |->
                                {s \in ExitSet : ~posfail /\ w1.venue.pos[s] > 0}
                                \cup {w1.trades[t].symbol :
                                        t \in list_open_trades(w1.trades)}]],
                  hb.file, [hist EXCEPT !.cycles = @ + 1])

\* the body of the for-loop for one symbol
SIter(begin, out, reached, env) ==
    /\ runner.pc = "s_iter"
    /\ runner.rs.i <= Len(ExitSymbols)
    /\ out = "dd_block" => cfg.mode = "live"
    /\ LET s == ExitSymbols[runner.rs.i]
           sid == signals[s].sid
           ks == runner.kill_switch_active
           ec == make_client_id(s, "entry", sid)
           pos_qty == IF runner.rs.posfail THEN 0 ELSE venue.pos[s]
           buy == /\ signals[s].dir = "long"
                  /\ pos_qty <= 0
                  /\ ~(cfg.max_pos > 0
                       /\ Cardinality(runner.rs.open_symbols) >= cfg.max_pos)
           sell == signals[s].dir = "short" /\ pos_qty > 0
           next == [runner EXCEPT !.rs.i = @ + 1]
           fresh == ~(s \in DOMAIN runner.last_seen /\ runner.last_seen[s] = sid)
           \* the answers this iteration does not ask for stay at one value
           asked == IF fresh /\ buy /\ begin = "ok"
                    THEN MarkFields(out)
                    ELSE IF fresh /\ ~buy /\ sell THEN {"posfail", "price_ok", "sell"}
                    ELSE {}
       IN  /\ env \in EnvsAsking(asked)
           /\ (fresh /\ buy) \/ begin = "ok"
           /\ (fresh /\ buy /\ begin = "ok") \/ (out = "filled" /\ ~reached)
           /\ ec \in venue.known => out \in {"rejected", "raise", "dd_block"}
           /\ reached => (out = "raise" /\ ec \notin venue.known)
           /\ IF ~fresh
              THEN Commit(World, next, files, hist)
              ELSE IF buy
              THEN IF begin \in {"price_raises", "reserve_raises"}
                   THEN /\ runner.consecutive_errors + 1 < MaxErrors
                        /\ CycleError(World, note_execute_trade(hist, s, sid), env)
                   ELSE LET w1 == IF begin = "skip" THEN World
                                  ELSE execute_trade_buy(World, ks, cfg, s, sid,
                                                         out, reached, env)
                        IN  Commit(w1,
                                   [seen(next, s, sid) EXCEPT
                                      !.rs.open_symbols =
                                         IF has_open_trade(w1.trades, s)
                                         THEN @ \cup {s} ELSE @],
                                   files, note_execute_trade(hist, s, sid))
              ELSE IF sell
              THEN IF ~env.price_ok
                   THEN /\ runner.consecutive_errors + 1 < MaxErrors
                        /\ CycleError(World, note_execute_trade(hist, s, sid), env)
                   ELSE Commit(execute_trade_sell(World, ks, s, sid, env),
                               seen(next, s, sid), files,
                               note_execute_trade(hist, s, sid))
              ELSE Commit(World, seen(next, s, sid), files, hist)

\* after the last symbol: _persist_state, run_strategy returns
SEnd ==
    /\ runner.pc = "s_iter"
    /\ runner.rs.i > Len(ExitSymbols)
    /\ CycleOk(World, [runner EXCEPT !.rs = NoRun], hist)

NextSlots ==
    \/ \E env \in EnvsAsking(ExitFields(runner.protections)), posfail \in BOOLEAN :
          SBegin(env, posfail)
    \/ \E begin \in BeginOutcomes, out \in BuyOutcomes, reached \in BOOLEAN,
          env \in EnvsAsking({"place", "posfail", "sell", "price_ok"}) :
          SIter(begin, out, reached, env)
    \/ SEnd
    \/ \E s \in ExitSet : hist.cycles = 0 /\ TimePasses(s)

SpecSlots == InitSlots /\ [][NextSlots]_vars

\* C21: with MAX_OPEN_POSITIONS > 0, after every step of run_strategy's
\* for-loop that sent an entry order the symbols with a non-zero venue
\* position or an open ledger trade are at most MAX_OPEN_POSITIONS
C21_OpenSlotsWithinCap ==
    [][(/\ cfg.max_pos > 0
        /\ runner.pc = "s_iter"
        /\ \E c \in DOMAIN hist'.sends :
              /\ c[2] = "entry"
              /\ (c \notin DOMAIN hist.sends \/ hist'.sends[c] > hist.sends[c]))
       => Cardinality({s \in ExitSet :
                          venue'.pos[s] > 0 \/ has_open_trade(trades', s)})
             <= cfg.max_pos]_vars

(***************************************************************************)
(* SpecStore: state_store.py on one path.  A JSON text is the sequence of  *)
(* its tokens; the objects written are maps from symbols to fingerprints   *)
(* (runner_state's last_seen).  The process can die at any step of        *)
(* atomic_write_bytes, with or without the machine: bytes that were not    *)
(* fsynced can then be cut short, and a rename that was just made can be   *)
(* undone.                                                                 *)
(***************************************************************************)
Fingerprints == {"f1", "f2"}

\* the dicts handed to atomic_write_json
StoreObjs ==
    UNION {[K -> Fingerprints] : K \in SUBSET ExitSet}

RECURSIVE json_members(_, _)
json_members(obj, i) ==
    IF i > Len(ExitSymbols) THEN <<>>
    ELSE (IF ExitSymbols[i] \in DOMAIN obj
          THEN <<ExitSymbols[i], obj[ExitSymbols[i]]>> ELSE <<>>)
         \o json_members(obj, i + 1)

\* json.dumps(obj).encode("utf-8")
json_dumps(obj) == <<"{">> \o json_members(obj, 1) \o <<"}">>

\* json.load raises (JSONDecodeError) unless the text is an object: braces
\* around key, value pairs
json_load_raises(bytes) ==
    \/ Len(bytes) < 2
    \/ bytes[1] # "{" \/ bytes[Len(bytes)] # "}"
    \/ Len(bytes) % 2 # 0
    \/ \E i \in 2..(Len(bytes) - 1) : bytes[i] \in {"{", "}"}

\* json.load of an object: the last value of a repeated key wins
json_load(bytes) ==
    LET n == (Len(bytes) - 2) \div 2
        keys == {bytes[2 * i] : i \in 1..n}
    IN  [k \in keys |->
           bytes[2 * (CHOOSE i \in 1..n :
                         /\ bytes[2 * i] = k
                         /\ \A j \in 1..n : bytes[2 * j] = k => j <= i) + 1]]

\* atomic_read_json(path, default): open or json.load raising gives default
atomic_read_json(f, default) ==
    IF ~f.exists \/ json_load_raises(f.bytes) THEN default ELSE json_load(f.bytes)

Prefixes(bytes) == {SubSeq(bytes, 1, n) : n \in 0..Len(bytes)}

\* (variant: os.replace follows the write with no fsync)
fsync_skipped(f) == f
\* f.flush(); os.fsync(f.fileno())
fsync(f) == [f EXCEPT !.synced = TRUE]

\* the texts found at the path when the process starts: none, one cut short
\* by hand or by another program, or one this module wrote
InitStore ==
    /\ InitLedgerVars
    /\ bk = BrokerIdle /\ rk = RiskIdle /\ wo = WaitIdle /\ wd = WatchdogIdle
    /\ rt = RouterIdle /\ InitRunnerIdle
    /\ \E f \in {NoFile} \cup {[exists |-> TRUE, bytes |-> b, synced |-> TRUE] :
                                 b \in {<<>>, <<"{", "BTCUSDT">>}
                                       \cup {json_dumps(o) : o \in StoreObjs}} :
          ss = [StoreIdle EXCEPT !.path = f, !.prev = f]

\* atomic_write_json(path, obj) is called: json.dumps, _ensure_dir
SsCall(obj) ==
    /\ ss.pc \in {"idle", "returned", "raised"}
    /\ ss' = [ss EXCEPT !.pc = "mkstemp", !.obj = obj, !.data = json_dumps(obj),
                        !.prev = ss.path, !.read_done = FALSE, !.read = <<>>,
                        !.default = <<>>]
    /\ UNCHANGED <<ledger_vars, bk, rk, rt, wo, wd, runner_vars>>

\* tempfile.mkstemp(prefix=".tmp_", dir=d): a new empty file
SsMkstemp ==
    /\ ss.pc = "mkstemp"
    /\ ss' = [ss EXCEPT !.pc = "write",
                        !.tmp = [exists |-> TRUE, bytes |-> <<>>, synced |-> FALSE]]
    /\ UNCHANGED <<ledger_vars, bk, rk, rt, wo, wd, runner_vars>>

\* f.write(data): the bytes reach the temp file, or a part of them does and
\* the write raises (disk full); the finally clause then removes the file
SsWrite(part) ==
    /\ ss.pc = "write"
    /\ part \in Prefixes(ss.data)
    /\ ss' = IF part = ss.data
             THEN [ss EXCEPT !.pc = "fsync", !.tmp.bytes = part]
             ELSE [ss EXCEPT !.pc = "raised", !.tmp = NoFile]
    /\ UNCHANGED <<ledger_vars, bk, rk, rt, wo, wd, runner_vars>>

SsFsync ==
    /\ ss.pc = "fsync"
    /\ ss' = [ss EXCEPT !.pc = "replace", !.tmp = fsync(@)]
    /\ UNCHANGED <<ledger_vars, bk, rk, rt, wo, wd, runner_vars>>

\* os.replace(tmp_path, path)
SsReplace ==
    /\ ss.pc = "replace"
    /\ ss' = [ss EXCEPT !.pc = "cleanup", !.path = ss.tmp, !.tmp = NoFile]
    /\ UNCHANGED <<ledger_vars, bk, rk, rt, wo, wd, runner_vars>>

\* finally: the temp path no longer exists; the call returns
SsReturn ==
    /\ ss.pc = "cleanup"
    /\ ss' = [ss EXCEPT !.pc = "returned"]
    /\ UNCHANGED <<ledger_vars, bk, rk, rt, wo, wd, runner_vars>>

\* the process dies inside the call (power: with the machine).  Without
\* power nothing of the files changes.  With it, a file that was not fsynced
\* keeps some prefix of its bytes, and the rename can be lost.
SsCrash(power, cut, undone) ==
    /\ ss.pc \in {"mkstemp", "write", "fsync", "replace", "cleanup"}
    /\ ~power => (cut = <<>> /\ ~undone)
    /\ undone => ss.pc = "cleanup"
    /\ LET lose(f) == IF power /\ f.exists /\ ~f.synced
                      THEN [f EXCEPT !.bytes = IF cut \in Prefixes(@) THEN cut ELSE @]
                      ELSE f
       IN  ss' = [ss EXCEPT !.pc = "crashed",
                            !.tmp = lose(@),
                            !.path = IF undone THEN ss.prev ELSE lose(@)]
    /\ UNCHANGED <<ledger_vars, bk, rk, rt, wo, wd, runner_vars>>

\* atomic_read_json(path, default), by the process or by the one started
\* after a crash
SsRead(default) ==
    /\ ss.pc \in {"idle", "returned", "raised", "crashed"}
    /\ ss' = [ss EXCEPT !.read = atomic_read_json(ss.path, default),
                        !.default = default, !.read_done = TRUE,
                        !.pc = IF @ = "crashed" THEN "idle" ELSE @]
    /\ UNCHANGED <<ledger_vars, bk, rk, rt, wo, wd, runner_vars>>

NextStore ==
    \/ \E obj \in StoreObjs : SsCall(obj)
    \/ SsMkstemp
    \/ \E part \in Prefixes(ss.data) : SsWrite(part)
    \/ SsFsync
    \/ SsReplace
    \/ SsReturn
    \/ \E power, undone \in BOOLEAN, cut \in Prefixes(ss.data) :
          SsCrash(power, cut, undone)
    \/ \E default \in StoreObjs : SsRead(default)

SpecStore == InitStore /\ [][NextStore]_vars

\* C22: whatever step of atomic_write_bytes the process dies at, the path
\* holds its whole previous content or the whole new one; a read after a
\* write that returned gives the object written; a read of a missing or
\* corrupt file gives the caller's default
C22_AtomicWriteThenRead ==
    /\ \/ ss.path.exists = ss.prev.exists /\ ss.path.bytes = ss.prev.bytes
       \/ ss.path.exists /\ ss.path.bytes = ss.data /\ ss.data # <<>>
    /\ (ss.pc = "returned" /\ ss.read_done) => ss.read = ss.obj
    /\ (/\ ss.read_done
        /\ \/ ~ss.path.exists
           \/ \A o \in StoreObjs : ss.path.bytes # json_dumps(o))
       => ss.read = ss.default

\* the process died after os.replace: the new text is whole at the path and
\* the process started afterwards has read the object from it
C22_Witness ==
    /\ ss.pc = "idle" /\ ss.read_done
    /\ ss.path.bytes = ss.data /\ ss.path.bytes # ss.prev.bytes
    /\ Len(ss.data) > 2
    /\ ss.read = ss.obj /\ ss.read # ss.default

(***************************************************************************)
(* SpecWait: wait_for_order_final of the two venue adapters.  Time is in   *)
(* units of poll_s; get_order_info answers with the order's state at the   *)
(* venue or raises.                                                        *)
(***************************************************************************)
MaxTimeout == 3        \* largest timeout_s (in polls) of the calls explored

\* the states of an order at a venue
OrderStates == {"new", "partially_filled", "filled", "canceled", "rejected"}

\* the states after which the venue changes nothing of the order
FinalStates == {"filled", "canceled", "rejected"}

\* executionReportStatus of the Tinkoff API for each state, in pieces:
\* EXECUTION_REPORT_STATUS_ + NEW, PARTIALLYFILL, FILL, CANCELLED, REJECTED
TinkoffReportStatus ==
    [new |-> <<"NEW">>, partially_filled |-> <<"PARTIALLY", "FILL">>,
     filled |-> <<"FILL">>, canceled |-> <<"CANCEL", "LED">>,
     rejected |-> <<"REJECT", "ED">>]

\* x in status
contains(status, x) == \E i \in 1..Len(status) : status[i] = x

\* the test that breaks the poll loop
breaks_loop(adapter, state) ==
    IF adapter = "bitget" THEN state \in {"filled", "canceled", "rejected"}
    ELSE \E x \in {"FILL", "CANCEL", "REJECT"} :
            contains(TinkoffReportStatus[state], x)

\* OrderResult.status computed from last after the loop
norm_status(adapter, last) ==
    IF last = "none" THEN "unknown"
    ELSE IF adapter = "bitget"
    THEN IF last \in {"new", "partially_filled"} THEN "submitted" ELSE last
    ELSE CASE contains(TinkoffReportStatus[last], "REJECT") -> "rejected"
           [] contains(TinkoffReportStatus[last], "CANCEL") -> "canceled"
           [] contains(TinkoffReportStatus[last], "FILL") -> "filled"
           [] OTHER -> "unknown"

InitWait ==
    /\ InitLedgerVars
    /\ bk = BrokerIdle /\ rk = RiskIdle /\ ss = StoreIdle /\ wd = WatchdogIdle
    /\ rt = RouterIdle /\ InitRunnerIdle
    /\ wo = WaitIdle

\* deadline = time.time() + timeout_s; last = {}
WoCall(adapter, timeout_s) ==
    /\ wo.pc \in {"idle", "done"}
    /\ wo' = [WaitIdle EXCEPT !.adapter = adapter, !.pc = "polling",
                              !.timeout_s = timeout_s]
    /\ UNCHANGED <<ledger_vars, bk, rk, rt, ss, wd, runner_vars>>

\* one pass of the while loop: get_order_info answers or raises, then break
\* or sleep(poll_s); an order does not go back to an earlier state
WoPoll(answer) ==
    /\ wo.pc = "polling"
    /\ wo.now < wo.timeout_s
    /\ wo.last = "partially_filled" => answer # "new"
    /\ wo' = IF answer = "raise" THEN [wo EXCEPT !.now = @ + 1]
             ELSE IF breaks_loop(wo.adapter, answer)
             THEN [wo EXCEPT !.last = answer, !.polled = TRUE, !.pc = "after_loop",
                             !.stopped_on = answer]
             ELSE [wo EXCEPT !.last = answer, !.polled = TRUE, !.now = @ + 1]
    /\ UNCHANGED <<ledger_vars, bk, rk, rt, ss, wd, runner_vars>>

\* the loop condition fails, or the loop was left by break: build the result
WoReturn ==
    /\ \/ wo.pc = "polling" /\ wo.now >= wo.timeout_s
       \/ wo.pc = "after_loop"
    /\ wo' = [wo EXCEPT !.pc = "done", !.status = norm_status(wo.adapter, wo.last)]
    /\ UNCHANGED <<ledger_vars, bk, rk, rt, ss, wd, runner_vars>>

NextWait ==
    \/ \E adapter \in Adapters, timeout_s \in 0..MaxTimeout : WoCall(adapter, timeout_s)
    \/ \E answer \in OrderStates \cup {"raise"} : WoPoll(answer)
    \/ WoReturn

SpecWait == InitWait /\ [][NextWait]_vars

\* C23: wait_for_order_final returns a result; it has left its loop at a
\* final state of the order (filled, canceled, rejected) or because the
\* timeout had elapsed; the status returned is the last one seen, unknown
\* when no poll got an answer
C23_WaitStopsAtFinalOrTimeout ==
    wo.pc = "done" =>
        /\ wo.status # "none"
        /\ wo.stopped_on \in FinalStates \/ wo.now >= wo.timeout_s
        /\ ~wo.polled => wo.status = "unknown"
        /\ wo.last \in FinalStates => wo.status = wo.last

(***************************************************************************)
(* SpecWatchdog: the loop of watchdog_heartbeat.py main().  Time is in     *)
(* units of --interval; the runner writes its heartbeat file at any time,  *)
(* or stops writing it.                                                    *)
(***************************************************************************)
StaleAfter == 1        \* --stale, in check intervals
AlertEvery == 4        \* --alert_every, in check intervals
MaxTicks == 8          \* check intervals explored beyond the first possible alert

\* age > stale; a heartbeat file without ts counts as infinitely old
is_stale(now, hb_ts) == hb_ts = 0 \/ now - hb_ts > StaleAfter

InitWatchdog ==
    /\ InitLedgerVars
    /\ bk = BrokerIdle /\ rk = RiskIdle /\ ss = StoreIdle /\ wo = WaitIdle
    /\ rt = RouterIdle /\ InitRunnerIdle
    /\ \E ts \in {0, AlertEvery} : wd = [WatchdogIdle EXCEPT !.now = AlertEvery,
                                                            !.hb_ts = ts]

\* main() up to the loop: the state file is read
WdStart ==
    /\ wd.pc = "down"
    /\ wd' = [wd EXCEPT !.pc = "loop",
                        !.last_alert_ts = wd.state_file.last_alert_ts,
                        !.last_was_stale = wd.state_file.last_was_stale]
    /\ UNCHANGED <<ledger_vars, bk, rk, rt, ss, wo, runner_vars>>

\* one pass of the loop: read the heartbeat, alert or not, write the state
\* file, sleep(interval)
WdCheck ==
    /\ wd.pc = "loop"
    /\ wd.now < AlertEvery + StaleAfter + MaxTicks
    /\ LET stale == is_stale(wd.now, wd.hb_ts)
           can_alert == wd.now - wd.last_alert_ts >= AlertEvery
           alert == stale /\ (~wd.last_was_stale \/ can_alert)
           ts == IF alert THEN wd.now ELSE wd.last_alert_ts
           latch == IF stale THEN (alert \/ wd.last_was_stale) ELSE FALSE
       IN  wd' = [wd EXCEPT
                    !.alerts = IF alert THEN @ \cup {wd.now} ELSE @,
                    !.last_alert_ts = ts,
                    !.last_was_stale = latch,
                    !.state_file = [last_alert_ts |-> ts, last_was_stale |-> latch],
                    !.seen = IF stale THEN "stale" ELSE "fresh",
                    !.now = @ + 1]
    /\ UNCHANGED <<ledger_vars, bk, rk, rt, ss, wo, runner_vars>>

\* the runner writes its heartbeat file (ts = time.time())
WdHeartbeat ==
    /\ wd.hb_ts # wd.now
    /\ wd' = [wd EXCEPT !.hb_ts = wd.now]
    /\ UNCHANGED <<ledger_vars, bk, rk, rt, ss, wo, runner_vars>>

NextWatchdog ==
    \/ WdStart
    \/ WdCheck
    \/ WdHeartbeat

SpecWatchdog == InitWatchdog /\ [][NextWatchdog]_vars

\* C24: any two alerts of the watchdog are at least alert_every apart, and a
\* pass of the loop that finds the heartbeat fresh sends nothing and resets
\* the stale latch
C24_OneAlertPerInterval ==
    [][/\ \A t1, t2 \in wd'.alerts : t1 < t2 => t2 - t1 >= AlertEvery
       /\ (wd'.now # wd.now /\ wd'.seen = "fresh")
             => (wd'.alerts = wd.alerts /\ ~wd'.last_was_stale)]_vars

\* C25: the protections map changes only while the trading lock is held.
\* The runner takes the lock in _handle_kill_switch and in the replacement
\* of a native stop in LIVE; the records of Spec do not trail, so a step of
\* Spec holds the lock only when it runs _handle_kill_switch, which is the
\* step that sets _kill_switch_active
C25_ProtectionsChangeUnderLock ==
    [][runner'.protections # runner.protections
          => (runner'.kill_switch_active /\ ~runner.kill_switch_active)]_vars

\* ---- engine-initiated exits ----
\* the step sent a market exit under client_id c: a synthetic SL / TP exit
\* of _check_protective_exits or the exit of execute_trade(side="sell")
exit_sent(c) ==
    /\ c \in DOMAIN hist'.sends
    /\ c \notin DOMAIN hist.sends \/ hist'.sends[c] > hist.sends[c]
    /\ \E r \in hist'.calls : r.cid = c /\ r.kind \in {"sl_tp_exit", "signal_exit"}

\* the trade the exit under c is to close: the record's trade_id for SL / TP,
\* the latest open trade of the symbol for a sell signal
exit_trades(c) ==
    IF c[2] = "exit" THEN (IF has_open_trade(trades, c[1])
                           THEN {get_open_trade(trades, c[1])} ELSE {})
    ELSE IF c[1] \in DOMAIN runner.protections
    THEN {runner.protections[c[1]].trade_id} \cap DOMAIN trades
    ELSE {}

\* C26: when the engine sends a market exit (synthetic SL or TP trigger, or
\* sell signal) and the order comes back filled, the trade is closed and the
\* protection entry removed; for any other status or a submission error the
\* open trades of the symbol stay open and its protection entry stays as it was
C26_ExitClosesOnlyWhenFilled ==
    [][\A c \in DOMAIN hist'.sends :
          (c[2] \in {"sl", "tp", "exit"} /\ exit_sent(c)) =>
              IF c \in DOMAIN orders' /\ orders'[c].status = "filled"
              THEN /\ c[1] \notin DOMAIN runner'.protections
                   /\ \A t \in exit_trades(c) : trades'[t].status = "closed"
              ELSE /\ \A t \in open_trades_of(trades, c[1]) : trades'[t].status = "open"
                   /\ c[1] \in DOMAIN runner.protections =>
                        /\ c[1] \in DOMAIN runner'.protections
                        /\ runner'.protections[c[1]] = runner.protections[c[1]]]_vars

\* a synthetic SL / TP exit that was not filled left the record and the trade
\* in place, and the sell signal that followed closed the position, the trade
\* and the record
C26_Witness ==
    \E s \in Symbols, role \in {"sl", "tp"} :
        LET xc == make_client_id(s, role, 1)
            sc == make_client_id(s, "exit", 1)
        IN  /\ xc \in DOMAIN orders /\ orders[xc].status \in {"rejected", "failed"}
            /\ sc \in DOMAIN orders /\ orders[sc].status = "filled"
            /\ make_trade_id(s, 1) \in DOMAIN trades
            /\ trades[make_trade_id(s, 1)].status = "closed"
            /\ s \notin DOMAIN runner.protections
            /\ venue.pos[s] = 0

\* ---- the entry order ----
\* the step runs execute_trade from the result of the entry order to its return
entry_settled == runner.pc = "et_mark" /\ runner'.pc = "loop_top"

C28_PendingEntryResolvedAtNextCheck ==
    [][(runner.pc = "loop_top" /\ runner'.pc = "signals") =>
          \A s \in DOMAIN runner.protections :
              LET p == runner.protections[s] IN
              (p.mode = "pending_entry" /\ p.old /\ venue.pos[s] = 0) =>
                  /\ s \notin DOMAIN runner'.protections
                  /\ p.trade_id \in DOMAIN trades'
                  /\ trades'[p.trade_id].status = "aborted"
                  /\ trades'[p.trade_id].exit_reason[1] = "pending_entry_timeout"]_vars

\* ---- native placement ----
\* the step called place_protection_orders for s and the call failed
native_failed(s) ==
    \E sid \in 1..MaxSignals :
        LET slc == make_client_id(s, "sl", sid) IN
        /\ slc \in DOMAIN hist'.sends
        /\ slc \notin DOMAIN hist.sends \/ hist'.sends[slc] > hist.sends[slc]
        /\ \E r \in hist'.calls : r.cid = slc /\ r.kind = "native_sl"
        /\ slc \in DOMAIN orders' /\ orders'[slc].status = "failed"
        /\ s \notin venue'.plans

\* C29: when the native placement fails after a confirmed entry, in LIVE
\* strict with an adapter that has place_protection_orders the symbol ends
\* with no protection entry (panic close), and in every other case it ends
\* with a synthetic entry
C29_NativeFailurePanicOrSynthetic ==
    [][\A s \in Symbols :
          native_failed(s) =>
              IF strict_protections_enabled(cfg) /\ cfg.broker_native
              THEN s \notin DOMAIN runner'.protections
              ELSE /\ s \in DOMAIN runner'.protections
                   /\ runner'.protections[s].mode = "synthetic"]_vars

\* ---- panic close ----
\* the step ran _panic_close_unprotected for the entry that execute_trade
\* has just seen filled: LIVE strict, an adapter with place_protection_orders,
\* and no native protection placed
panic_after_entry ==
    /\ entry_settled
    /\ runner.et.res = "filled"
    /\ strict_protections_enabled(cfg) /\ cfg.broker_native
    /\ ~(/\ runner.et.symbol \in DOMAIN runner'.protections
         /\ runner'.protections[runner.et.symbol].mode = "native")

\* C30: _panic_close_unprotected ends with the protection entry of the symbol
\* removed from the map and from protections.json, whatever became of the
\* panic exit order, and it closes the trade only when that order is filled
C30_PanicCloseDropsProtection ==
    [][panic_after_entry =>
          LET s == runner.et.symbol
              t == make_trade_id(s, runner.et.signal_id)
              pc == make_client_id(s, "pxit", runner.et.signal_id)
          IN  /\ s \notin DOMAIN runner'.protections
              /\ s \notin DOMAIN files'.protections
              /\ (trades'[t].status = "closed" /\ trades[t].status # "closed")
                    => (pc \in DOMAIN orders' /\ orders'[pc].status = "filled")]_vars

\* ---- exits of native records ----
\* the step is run_strategy up to the end of _check_protective_exits
exits_checked == runner.pc = "loop_top" /\ runner'.pc = "signals"

\* C31: when _check_protective_exits closes the trade of a native record
\* (a plan order has fired, or the position is gone), the exit reason written
\* is native_sl or native_tp and no plan order of the symbol is left live at
\* the venue
C31_NativeCloseLeavesNoPlan ==
    [][exits_checked =>
          \A s \in DOMAIN runner.protections :
              LET p == runner.protections[s] IN
              (/\ p.mode = "native"
               /\ p.trade_id \in DOMAIN trades
               /\ trades[p.trade_id].status = "open"
               /\ trades'[p.trade_id].status = "closed") =>
                  /\ trades'[p.trade_id].exit_reason \in {<<"native", "sl">>,
                                                         <<"native", "tp">>}
                  /\ s \notin venue'.plans]_vars

\* ---- the time exit ----
\* the step sent the market order of the time exit of the record of s
time_exit_sent(s) ==
    LET tc == make_client_id(s, "exit_time", runner.protections[s].signal_id) IN
    /\ tc \in DOMAIN hist'.sends
    /\ tc \notin DOMAIN hist.sends \/ hist'.sends[tc] > hist.sends[tc]

\* C40: when _check_protective_exits sends the market order of a time exit,
\* the trade is closed and the record removed only if that order was filled,
\* and the ledger row of the order is not left reserved
C40_TimeExitFilledAndMarked ==
    [][exits_checked =>
          \A s \in DOMAIN runner.protections :
              time_exit_sent(s) =>
                  LET p == runner.protections[s]
                      tc == make_client_id(s, "exit_time", p.signal_id)
                  IN  /\ tc \in DOMAIN orders'
                      /\ orders'[tc].status # "reserved"
                      /\ (\/ s \notin DOMAIN runner'.protections
                          \/ /\ p.trade_id \in DOMAIN trades
                             /\ trades[p.trade_id].status = "open"
                             /\ trades'[p.trade_id].status = "closed")
                            => orders'[tc].status = "filled"]_vars

\* ---- a position listing that failed ----
\* C38: a protective-exit check drops the record of a position, or closes its
\* trade, only when the venue reported the position gone: while the position
\* is still open at the venue (and, for a native record, its plan orders are
\* still live), a record that is not due for a time exit stays in the map and
\* its trade stays open, also when list_all_positions failed or was partial
C38_DropOnlyWhenPositionGone ==
    [][(exits_checked /\ ~runner'.kill_switch_active) =>
          \A s \in DOMAIN runner.protections :
              LET p == runner.protections[s] IN
              (/\ p.mode \in {"synthetic", "native"}
               /\ ~p.old
               /\ venue.pos[s] > 0 /\ venue'.pos[s] > 0
               /\ p.mode = "native" => s \in venue'.plans) =>
                  /\ s \in DOMAIN runner'.protections
                  /\ (p.trade_id \in DOMAIN trades /\ trades[p.trade_id].status = "open")
                        => trades'[p.trade_id].status = "open"]_vars

\* ---- initialize ----
\* the step is initialize(), from the constructor to its return or its raise
initialized == runner.pc = "down" /\ runner'.pc # "down"

\* C32: initialize() completes and the runner goes on to its first cycle when
\* the broker answers the position request of the startup reconciliation, and
\* it raises, with no cycle run, when that request fails
C32_InitializeCompletesIffAnswered ==
    [][initialized =>
          IF hist'.answered THEN runner'.pc = "loop_top"
          ELSE runner'.pc = "init_failed"]_vars

\* the step is an initialize() that completed
reconciled == runner.pc = "down" /\ runner'.pc = "loop_top"

\* C33: after the startup reconciliation, every protection loaded from
\* protections.json whose symbol has a live position is still in the map, and
\* every one whose symbol has no live position is removed
C33_StartupKeepsLiveProtections ==
    [][reconciled =>
          \A s \in DOMAIN files.protections :
              IF venue.pos[s] > 0 THEN s \in DOMAIN runner'.protections
              ELSE s \notin DOMAIN runner'.protections]_vars

\* C34: the startup reconciliation closes every open ledger trade whose
\* position no longer exists with reason reconcile_missing_position, whether
\* or not the trade had a protection on disk
C34_StartupClosesMissingPositions ==
    [][reconciled =>
          \A t \in list_open_trades(trades) :
              venue.pos[trades[t].symbol] = 0 =>
                  /\ trades'[t].status = "closed"
                  /\ trades'[t].exit_reason = <<"reconcile_missing_position">>]_vars

(***************************************************************************)
(* SpecStartup: initialize() over what a process finds when it starts: the *)
(* ledger, protections.json and the venue's positions of two symbols, each *)
(* left in one of the ways StartupFates lists. The process is started,     *)
(* dies, and is started again with the venue and the ledger as the first   *)
(* start left them.                                                        *)
(***************************************************************************)
\* never traded; a position opened by hand; entered and protected; entered
\* and the position closed at the venue since; entered, the trade closed and
\* the record dropped, with a position open again
StartupFates == {"never", "manual", "kept", "closed", "exited"}

found(w, c, s, fate, env) ==
    CASE fate = "never" -> w
      [] fate = "manual" -> [w EXCEPT !.venue.pos[s] = 1]
      [] fate = "kept" -> entered(w, c, s, env)
      [] fate = "closed" ->
            [entered(w, c, s, env) EXCEPT !.venue.pos[s] = 0, !.venue.plans = @ \ {s}]
      [] OTHER ->
            persist_protections(
              [entered(w, c, s, env) EXCEPT
                 !.trades = close_trade(@, make_trade_id(s, 1), <<"signal_exit">>),
                 !.protections = Without(@, s),
                 !.venue.pos[s] = 1, !.venue.plans = @ \ {s}])

InitStartup ==
    /\ last_call = NoCall
    /\ held = {}
    /\ inserted_by = [c \in {} |-> 0]
    /\ bk = BrokerIdle /\ rk = RiskIdle /\ ss = StoreIdle /\ wo = WaitIdle /\ wd = WatchdogIdle
    /\ rt = RouterIdle
    /\ signals = [s \in ExitSet |-> [sid |-> 1, dir |-> "long"]]
    /\ cfg \in Cfgs
    /\ \E f1 \in StartupFates, f2 \in StartupFates,
          e1 \in EnvsAsking({"place"}), e2 \in EnvsAsking({"place"}) :
         LET w0 == [orders |-> [c \in {} |-> 0], trades |-> [t \in {} |-> 0],
                    protections |-> [s \in {} |-> 0],
                    protections_file |-> [s \in {} |-> 0],
                    venue |-> [VenueEmpty EXCEPT !.pos = [s \in ExitSet |-> 0]],
                    calls |-> {}, blocked |-> FALSE, sends |-> [c \in {} |-> 0],
                    ks_log |-> <<>>, lock |-> FALSE, moves |-> {}]
             w2 == found(found(w0, cfg, ExitSymbols[1], f1, e1), cfg,
                         ExitSymbols[2], f2, e2)
         IN  /\ orders = w2.orders
             /\ trades = w2.trades
             /\ venue = w2.venue
             /\ runner = RunnerDown
             /\ files = [FilesEmpty EXCEPT !.protections = w2.protections_file]
             /\ hist = [HistEmpty EXCEPT !.calls = w2.calls, !.sends = w2.sends]

NextStartup ==
    \/ \E answered \in BOOLEAN, posfail \in BOOLEAN : Start(answered, posfail)
    \/ Crash

SpecStartup == InitStartup /\ [][NextStartup]_vars

\* the open trades of s that the step wrote
orphans_written(s) == open_trades_of(trades', s) \ open_trades_of(trades, s)

\* C35: the startup reconciliation writes exactly one open orphan trade for
\* every listed position that has no open ledger trade and none for a position
\* that has one; run again on the venue and the ledger it left, with the same
\* listing, it writes no trade and changes no trade and no protection
C35_StartupReconcileIdempotent ==
    [][reconciled =>
          /\ hist'.listed =>
                \A s \in DOMAIN venue.pos :
                    venue.pos[s] > 0 =>
                        IF has_open_trade(trades, s) THEN orphans_written(s) = {}
                        ELSE /\ Cardinality(orphans_written(s)) = 1
                             /\ \A t \in orphans_written(s) : trades'[t].signal_id = 0
                             /\ Cardinality(open_trades_of(trades', s)) = 1
          /\ (hist.crashes > 0 /\ hist.answered /\ hist'.listed = hist.listed) =>
                /\ trades' = trades
                /\ files'.protections = files.protections
                /\ runner'.protections = files.protections]_vars

\* a second startup has run after a first one that wrote an orphan trade, and
\* that trade is still the one open trade of its symbol
C35_Witness ==
    /\ runner.pc = "loop_top"
    /\ hist.crashes = 1
    /\ \E t \in DOMAIN trades :
          /\ Len(t) = 3 /\ t[2] = "reconcile" /\ t[3] = 0
          /\ trades[t].status = "open"
          /\ open_trades_of(trades, t[1]) = {t}
          /\ venue.pos[t[1]] > 0

C37_ArmedStopRises ==
    \A s \in DOMAIN runner.protections :
        ("atr" \notin DOMAIN runner.protections[s] /\ hist.far > 0) =>
            runner.protections[s].sl > hist.far

\* ---- a synthetic exit that did not end ----
\* C39: while a synthetic record stands for a position that is still open,
\* an earlier SL / TP exit attempt does not block the next one: between two
\* cycles, reserve_order accepts the client_id of either exit again
C39_NonFinalExitCanBeRetried ==
    runner.pc = "loop_top" =>
        \A s \in DOMAIN runner.protections :
            LET p == runner.protections[s] IN
            (p.mode = "synthetic" /\ venue.pos[s] > 0) =>
                \A role \in {"sl", "tp"} :
                    reserve_order_ret(orders, make_client_id(s, role, p.signal_id))

====
